---------------------------- MODULE Spec2Model ----------------------------
(***************************************************************************)
(* A model of landice/mesh_tools_li/interpolate_to_mpasli_grid.py: the     *)
(* horizontal interpolators (bilinear, barycentric with nearest-neighbour  *)
(* fallback, ESMF sparse weights), the vertical re-layering, the setup of  *)
(* the destination's vertical coordinates and the field loop of the run.   *)
(*                                                                         *)
(* Numbers.  The script computes in floating point; the model computes in  *)
(* exact arithmetic.  Coordinates and field values are integers (of a      *)
(* fixed unit: a horizontal coordinate c of the model is the coordinate    *)
(* c/2 of the spec's scenarios), and every quotient the code forms is kept *)
(* as a fraction <<numerator, denominator>> with a positive denominator.   *)
(* Python indices are 0-based and sequences here are 1-based: Python's     *)
(* a[k] is a[k+1] here, and PyAt gives Python's index rules (negative      *)
(* indices count from the end, anything else out of range fails).          *)
(***************************************************************************)
EXTENDS Integers, Sequences, FiniteSets

VARIABLES
    pc,             \* where the run is: "start", "done", or the failure raised
    gridType,       \* fieldInfo[...]['gridType'] of the field being interpolated
    x0, y0,         \* axes of the staggered CISM grid
    x1, y1,         \* axes of the primary CISM grid
    xCell, yCell,   \* the destination cell centres
    InputField,     \* the source field snapshot
    cellIndex,      \* BilinearInterp: the (xgrid, ygrid) located for each cell
    MPASfield,      \* the interpolated field, one value per destination cell
    filetype,       \* "cism" or "mpas": the layout of the source file
    inputxCell, inputyCell,  \* the cell centres of an MPAS source file
    weights,        \* the barycentric tables of each topology: vtx1, wts1,
                    \* outsideIndx1, treex1 ("x1"); vtx0, wts0, outsideIndx0,
                    \* treex0 ("x0"); vtCell, wtsCell, outsideIndcell,
                    \* treecell ("cell")

    S, row, col,    \* the ESMF weight file's triples (lines 59-61); <<>> each
                    \* when no weight file was read
    weightsLoaded,  \* whether lines 58-62 ran (S, row and col are defined)
    esmfLog,        \* the calls of ESMF_interp so far: source field, returned
                    \* field, triples performed, whether the except clause ran

    sourceLayers,   \* the source file's vertical coordinate of the field
                    \* (inputFile.variables[layerFieldName], line 278)
    input_layers,   \* interpolate_field_with_layers: the source coordinates
                    \* handed to the vertical interpolation
    destVertCoord,  \* the destination's vertical coordinates (lines 345-350)
    mpas_grid_input_layers,  \* the field on the source layers (rows) at the
                    \* destination cells (columns), line 303

    diagnostics,    \* the warnings and errors printed so far
    args,           \* the command line (lines 38-45)
    inputFile,      \* the source file: its variables, each with whether it
                    \* has a time dimension and its data by time level
    MPASfile,       \* the destination file: its dimensions, its variables
                    \* (dimensions and data by time level) and its history
    MPASfieldName,  \* the field loop's position in fieldInfo (line 681)
    timelev,        \* the time level loop's position (line 692)
    nn_idx,         \* nn_idx_x1, nn_idx_x0, nn_idx_cell (lines 594-613)
    writes,         \* the writes to destination variables so far (lines
                    \* 710, 712): field and time level
    mpasLayerCenters,     \* lines 418-421
    mpasLayerInterfaces,  \* lines 430-431
    defined         \* the global names the destination setup has bound

vars == <<pc, gridType, x0, y0, x1, y1, xCell, yCell, InputField, cellIndex,
          MPASfield, filetype, inputxCell, inputyCell, weights, S, row, col,
          weightsLoaded, esmfLog, sourceLayers, input_layers, destVertCoord,
          mpas_grid_input_layers, diagnostics, args, inputFile, MPASfile,
          MPASfieldName, timelev, nn_idx, writes, mpasLayerCenters,
          mpasLayerInterfaces, defined>>

\* The state of the field loop and of the destination's vertical setup.
runVars == <<args, inputFile, MPASfile, MPASfieldName, timelev, nn_idx, writes,
             mpasLayerCenters, mpasLayerInterfaces, defined>>

\* The state of the vertical re-layering.
verticalVars ==
    <<sourceLayers, input_layers, destVertCoord, mpas_grid_input_layers>>

\* The state of the ESMF method.
esmfVars == <<S, row, col, weightsLoaded, esmfLog>>

\* The state of the barycentric method.
delaunayVars == <<inputxCell, inputyCell, weights>>

---------------------------------------------------------------------------
(* Bounds of the model. *)

\* The longest coordinate axis of a structured source grid.
MaxAxisLen == 4

\* The most destination cells of a mesh (barycentric and ESMF runs).
MaxCells == 2

\* The most triples of an ESMF weight file.
MaxTriples == 2

\* The most vertical levels of a source or destination column.
MaxLayers == 3

---------------------------------------------------------------------------
(* Exact arithmetic. *)

Abs(a) == IF a < 0 THEN -a ELSE a

\* math.floor(a / b) for integers a and b # 0.
FloorDiv(a, b) == IF b > 0 THEN a \div b ELSE (-a) \div (-b)

RECURSIVE Gcd(_, _)
Gcd(a, b) == IF b = 0 THEN a ELSE Gcd(b, a % b)

\* The fraction n/d, d # 0, in lowest terms with a positive denominator.
Rat(n, d) ==
    LET g == Gcd(Abs(n), Abs(d))
        sgn == IF d < 0 THEN -1 ELSE 1
    IN  <<(sgn * n) \div g, (sgn * d) \div g>>

RatAdd(p, q) == Rat(p[1] * q[2] + q[1] * p[2], p[2] * q[2])

RatSub(p, q) == Rat(p[1] * q[2] - q[1] * p[2], p[2] * q[2])

RatMul(p, q) == Rat(p[1] * q[1], p[2] * q[2])

RatEq(p, q) == p[1] * q[2] = q[1] * p[2]

RatLeq(p, q) == p[1] * q[2] <= q[1] * p[2]

\* The integer k as a fraction.
RatInt(k) == <<k, 1>>

RECURSIVE SumTo(_, _)
\* f[1] + ... + f[n]
SumTo(f, n) == IF n = 0 THEN 0 ELSE SumTo(f, n - 1) + f[n]

\* Python's sequence indexing: a[k] for -len(a) <= k < len(a).
PyInRange(a, k) == -Len(a) <= k /\ k < Len(a)

PyAt(a, k) == IF k >= 0 THEN a[k + 1] ELSE a[Len(a) + k + 1]

Reverse(s) == [i \in 1..Len(s) |-> s[Len(s) + 1 - i]]

\* A topology whose barycentric table has not been built.
NoTable ==
    [vtx |-> <<>>, wts |-> <<>>, outsideInd |-> <<>>,
     tree |-> [data |-> <<>>, order |-> "low"]]

\* No barycentric table has been built.
NoWeights == [x0 |-> NoTable, x1 |-> NoTable, cell |-> NoTable]

\* No weight file has been read and ESMF_interp has not been called.
EsmfIdle ==
    /\ S = <<>>
    /\ row = <<>>
    /\ col = <<>>
    /\ weightsLoaded = FALSE
    /\ esmfLog = <<>>

\* The defaults of the command line (lines 38-45).
DefaultArgs ==
    [interpType |-> "b", weightFile |-> FALSE, thicknessOnly |-> FALSE,
     timestart |-> 0, timeend |-> 0]

\* A file that is not open.
NoFile == [variables |-> <<>>]

\* The nearest-neighbour index arrays before lines 583-614.
NoNN == [x0 |-> <<>>, x1 |-> <<>>, cell |-> <<>>]

\* No run of the field loop and no destination setup.
RunIdle ==
    /\ args = DefaultArgs
    /\ inputFile = NoFile
    /\ MPASfile = NoFile
    /\ MPASfieldName = 0
    /\ timelev = 0
    /\ nn_idx = NoNN
    /\ writes = <<>>
    /\ mpasLayerCenters = <<>>
    /\ mpasLayerInterfaces = <<>>
    /\ defined = {}

\* No layered field is being interpolated.
VerticalIdle ==
    /\ sourceLayers = <<>>
    /\ input_layers = <<>>
    /\ destVertCoord = <<>>
    /\ mpas_grid_input_layers = <<>>

\* mpasXY (lines 545, 584): the destination cells as (x, y) pairs.
mpasXY == [n \in 1..Len(xCell) |-> <<xCell[n], yCell[n]>>]

---------------------------------------------------------------------------
(* BilinearInterp (lines 89-120). *)

ClampIndexNoUpper(g, n) == IF g < 0 THEN 0 ELSE g

\* Lines 106-109 and 111-114: the located index g kept within [0, n-2].
ClampIndex(g, n) ==
    IF g >= n - 1 THEN n - 2
    ELSE IF g < 0 THEN 0
    ELSE g

\* Lines 101-102, 105-114: the lower index of the grid cell of coordinate c
\* on axis ax; the spacing is that of the first two samples.
GridIndex(c, ax) == ClampIndex(FloorDiv(c - ax[1], ax[2] - ax[1]), Len(ax))

\* Whether lines 116-119 can read Value, x and y at the located indices.
BilinearInRange(Value, x, y, xgrid, ygrid) ==
    /\ PyInRange(x, xgrid) /\ PyInRange(x, xgrid + 1)
    /\ PyInRange(y, ygrid) /\ PyInRange(y, ygrid + 1)
    /\ PyInRange(Value, ygrid) /\ PyInRange(Value, ygrid + 1)
    /\ PyInRange(PyAt(Value, ygrid), xgrid)
    /\ PyInRange(PyAt(Value, ygrid), xgrid + 1)

BilinearCellNoCross(Value, x, y, xc, yc) ==
    LET dx == x[2] - x[1]
        dy == y[2] - y[1]
        xgrid == GridIndex(xc, x)
        ygrid == GridIndex(yc, y)
    IN  Rat(  PyAt(PyAt(Value, ygrid), xgrid)
                * (PyAt(x, xgrid + 1) - xc) * (PyAt(y, ygrid + 1) - yc)
            + PyAt(PyAt(Value, ygrid + 1), xgrid)
                * (PyAt(x, xgrid + 1) - xc) * (yc - PyAt(y, ygrid))
            + PyAt(PyAt(Value, ygrid), xgrid + 1)
                * (xc - PyAt(x, xgrid)) * (PyAt(y, ygrid + 1) - yc)
            + PyAt(PyAt(Value, ygrid), xgrid + 1)
                * (xc - PyAt(x, xgrid)) * (yc - PyAt(y, ygrid)),
            dx * dy)

\* Lines 116-119: the four-corner weighted average at the located cell,
\* divided by dx * dy.
BilinearCell(Value, x, y, xc, yc) ==
    LET dx == x[2] - x[1]
        dy == y[2] - y[1]
        xgrid == GridIndex(xc, x)
        ygrid == GridIndex(yc, y)
    IN  Rat(  PyAt(PyAt(Value, ygrid), xgrid)
                * (PyAt(x, xgrid + 1) - xc) * (PyAt(y, ygrid + 1) - yc)
            + PyAt(PyAt(Value, ygrid + 1), xgrid)
                * (PyAt(x, xgrid + 1) - xc) * (yc - PyAt(y, ygrid))
            + PyAt(PyAt(Value, ygrid), xgrid + 1)
                * (xc - PyAt(x, xgrid)) * (PyAt(y, ygrid + 1) - yc)
            + PyAt(PyAt(Value, ygrid + 1), xgrid + 1)
                * (xc - PyAt(x, xgrid)) * (yc - PyAt(y, ygrid)),
            dx * dy)

\* Lines 95-100: the axes the grid type selects.
BilinearAxisX(gt) == IF gt = "x0" THEN x0 ELSE x1

BilinearAxisY(gt) == IF gt = "x0" THEN y0 ELSE y1

\* Lines 103-114: the cell indices located for every destination cell.
BilinearIndices(gt) ==
    [i \in 1..Len(xCell) |->
        <<GridIndex(xCell[i], BilinearAxisX(gt)),
          GridIndex(yCell[i], BilinearAxisY(gt))>>]

\* Whether every read of lines 116-119 is in range, for every cell.
BilinearReadsOk(Value, gt) ==
    \A i \in 1..Len(xCell) :
        BilinearInRange(Value, BilinearAxisX(gt), BilinearAxisY(gt),
                        BilinearIndices(gt)[i][1], BilinearIndices(gt)[i][2])

\* Lines 93, 103-120: the returned ValueCell.
BilinearInterp(Value, gt) ==
    [i \in 1..Len(xCell) |->
        BilinearCell(Value, BilinearAxisX(gt), BilinearAxisY(gt),
                     xCell[i], yCell[i])]

---------------------------------------------------------------------------
(* The inputs of a BilinearInterp run. *)

\* The spacings between adjacent samples of an axis.
Steps == {1, 2}

\* The axis that starts at 0 and advances by s[1], s[2], ...
AxisOf(s) == [i \in 1..(Len(s) + 1) |-> SumTo(s, i - 1)]

AscendingAxes ==
    UNION { { AxisOf(s) : s \in [1..k -> Steps] } : k \in 1..(MaxAxisLen - 1) }

\* Strictly monotonic axes of at least two samples, ascending and descending.
Axes == AscendingAxes \cup { Reverse(a) : a \in AscendingAxes }

\* The axes of a grid the run does not read.
UnusedAxis == <<0, 1>>

\* Destination cells: inside the source domain, on its nodes and edges, and
\* outside it on either side.
BilinearPoints == { <<3, 1>>, <<0, 0>>, <<2, 2>>, <<6, 4>>, <<-1, -2>>, <<9, 9>> }

BilinearMeshes ==
    { <<p>> : p \in BilinearPoints }
        \cup { <<<<3, 1>>, <<9, 9>>>>, <<<<-1, -2>>, <<1, 1>>>> }

\* The coefficients <<a, b, c>> of the affine fields a + b*x + c*y.
Coefs == { <<0, 1, 2>>, <<3, -1, 1>> }

AffineField(x, y, coef) ==
    [j \in 1..Len(y) |->
        [i \in 1..Len(x) |-> coef[1] + coef[2] * x[i] + coef[3] * y[j]]]

\* The field f with p added at its first node.
Perturbed(f, p) == [f EXCEPT ![1][1] = @ + p]

InitBilinear ==
    /\ pc = "start"
    /\ gridType \in {"x0", "x1"}
    /\ \E ax \in Axes, ay \in Axes :
          /\ x1 = IF gridType = "x1" THEN ax ELSE UnusedAxis
          /\ y1 = IF gridType = "x1" THEN ay ELSE UnusedAxis
          /\ x0 = IF gridType = "x0" THEN ax ELSE UnusedAxis
          /\ y0 = IF gridType = "x0" THEN ay ELSE UnusedAxis
          /\ \E coef \in Coefs, p \in {0, 1} :
                InputField = Perturbed(AffineField(ax, ay, coef), p)
    /\ \E mesh \in BilinearMeshes :
          /\ xCell = [i \in 1..Len(mesh) |-> mesh[i][1]]
          /\ yCell = [i \in 1..Len(mesh) |-> mesh[i][2]]
    /\ cellIndex = <<>>
    /\ MPASfield = <<>>
    /\ filetype = "cism"
    /\ inputxCell = <<>>
    /\ inputyCell = <<>>
    /\ weights = NoWeights
    /\ EsmfIdle
    /\ VerticalIdle
    /\ RunIdle
    /\ diagnostics = <<>>

\* A call of BilinearInterp(InputField, gridType) (line 231).
CallBilinearInterp ==
    /\ pc = "start"
    /\ IF gridType \notin {"x0", "x1"}
       THEN /\ pc' = "exit"                                   \* line 100
            /\ UNCHANGED <<cellIndex, MPASfield>>
       ELSE /\ cellIndex' = BilinearIndices(gridType)
            /\ IF BilinearReadsOk(InputField, gridType)
               THEN /\ MPASfield' = BilinearInterp(InputField, gridType)
                    /\ pc' = "done"
               ELSE /\ pc' = "IndexError"
                    /\ UNCHANGED MPASfield
    /\ UNCHANGED <<gridType, x0, y0, x1, y1, xCell, yCell, InputField,
                   filetype>>
    /\ UNCHANGED delaunayVars
    /\ UNCHANGED esmfVars
    /\ UNCHANGED verticalVars
    /\ UNCHANGED runVars
    /\ UNCHANGED diagnostics

NextBilinear == CallBilinearInterp

SpecBilinear == InitBilinear /\ [][NextBilinear]_vars

---------------------------------------------------------------------------
(* Claims about BilinearInterp. *)

AxisMin(ax) == IF ax[1] < ax[Len(ax)] THEN ax[1] ELSE ax[Len(ax)]

AxisMax(ax) == IF ax[1] < ax[Len(ax)] THEN ax[Len(ax)] ELSE ax[1]

Descending(ax) == ax[1] > ax[Len(ax)]

\* Constant spacing: every adjacent pair is as far apart as the first.
Uniform(ax) == \A k \in 1..(Len(ax) - 1) : ax[k + 1] - ax[k] = ax[2] - ax[1]

InsideDomain(i) ==
    /\ AxisMin(BilinearAxisX(gridType)) <= xCell[i]
    /\ xCell[i] <= AxisMax(BilinearAxisX(gridType))
    /\ AxisMin(BilinearAxisY(gridType)) <= yCell[i]
    /\ yCell[i] <= AxisMax(BilinearAxisY(gridType))

BilinearCalled == pc \in {"done", "IndexError"}

\* C1: after BilinearInterp has located the cells, every destination cell
\* (inside, on the edge of or outside the source domain; ascending or
\* descending axes) has 0 <= xgrid <= len(x)-2 and 0 <= ygrid <= len(y)-2,
\* every read of Value, x and y is in range and no IndexError is raised.
C1_IndicesClamped ==
    BilinearCalled =>
        /\ pc = "done"
        /\ Len(cellIndex) = Len(xCell)
        /\ \A i \in 1..Len(xCell) :
              /\ 0 <= cellIndex[i][1]
              /\ cellIndex[i][1] <= Len(BilinearAxisX(gridType)) - 2
              /\ 0 <= cellIndex[i][2]
              /\ cellIndex[i][2] <= Len(BilinearAxisY(gridType)) - 2

\* A cell beyond the upper edge of a descending x axis and below the lower
\* edge of an ascending y axis has been located in the edge cells.
C1_Witness ==
    /\ pc = "done"
    /\ \E i \in 1..Len(xCell) :
          /\ Len(BilinearAxisX(gridType)) >= 3
          /\ Descending(BilinearAxisX(gridType))
          /\ ~Descending(BilinearAxisY(gridType))
          /\ xCell[i] < AxisMin(BilinearAxisX(gridType))
          /\ yCell[i] < AxisMin(BilinearAxisY(gridType))
          /\ cellIndex[i] = <<Len(BilinearAxisX(gridType)) - 2, 0>>

IsAffine(f, x, y, coef) == f = AffineField(x, y, coef)

AffineAt(coef, xc, yc) == RatInt(coef[1] + coef[2] * xc + coef[3] * yc)

\* C2 as stated: for strictly monotonic axes of any spacing and an affine
\* source field, every destination cell inside the domain gets the affine
\* function's value.
C2_ExactAnySpacing ==
    pc = "done" =>
        \A coef \in Coefs :
            IsAffine(InputField, BilinearAxisX(gridType),
                     BilinearAxisY(gridType), coef) =>
                \A i \in 1..Len(xCell) :
                    InsideDomain(i) =>
                        RatEq(MPASfield[i], AffineAt(coef, xCell[i], yCell[i]))

\* The scenario of C2 in model units: axes x = [0,1,2,3], y = [0,1,2], the
\* field f = x + 2y and the destination (1.5, 0.5); values in halves.
C2_Scenario ==
    /\ BilinearAxisX(gridType) = <<0, 2, 4, 6>>
    /\ BilinearAxisY(gridType) = <<0, 2, 4>>
    /\ InputField = AffineField(<<0, 2, 4, 6>>, <<0, 2, 4>>, <<0, 1, 2>>)
    /\ xCell[1] = 3
    /\ yCell[1] = 1

\* C2 amended: for axes of constant spacing and an affine source field,
\* every destination cell inside the domain gets the affine function's
\* value; the scenario yields 2.5 (5 halves).
C2_ExactUniformSpacing ==
    pc = "done" =>
        /\ \A coef \in Coefs :
              ( /\ IsAffine(InputField, BilinearAxisX(gridType),
                            BilinearAxisY(gridType), coef)
                /\ Uniform(BilinearAxisX(gridType))
                /\ Uniform(BilinearAxisY(gridType)) ) =>
                  \A i \in 1..Len(xCell) :
                      InsideDomain(i) =>
                          RatEq(MPASfield[i],
                                AffineAt(coef, xCell[i], yCell[i]))
        /\ C2_Scenario => RatEq(MPASfield[1], RatInt(5))

\* The scenario has run and its cell holds 5 halves.
C2_Witness ==
    /\ pc = "done"
    /\ C2_Scenario
    /\ MPASfield[1][1] = 5 * MPASfield[1][2]

---------------------------------------------------------------------------
(* Plane geometry, for scipy.spatial.Delaunay and scipy.spatial.cKDTree.   *)
(* Source points are numbered from 0, as in the script: point k of the     *)
(* array xy is xy[k + 1].                                                  *)

\* Twice the signed area of the triangle a, b, c.
Orient(a, b, c) ==
    (b[1] - a[1]) * (c[2] - a[2]) - (b[2] - a[2]) * (c[1] - a[1])

\* The squared distance of a and b.
Dist2(a, b) ==
    (a[1] - b[1]) * (a[1] - b[1]) + (a[2] - b[2]) * (a[2] - b[2])

\* Whether d lies strictly inside the circle through a, b and c.
InCircumcircle(a, b, c, d) ==
    LET ax == a[1] - d[1]
        ay == a[2] - d[2]
        bx == b[1] - d[1]
        by == b[2] - d[2]
        cx == c[1] - d[1]
        cy == c[2] - d[2]
        aa == ax * ax + ay * ay
        bb == bx * bx + by * by
        cc == cx * cx + cy * cy
        det == ax * (by * cc - cy * bb) - ay * (bx * cc - cx * bb)
                 + aa * (bx * cy - cx * by)
    IN  det * Orient(a, b, c) > 0

PointIds(xy) == 0..(Len(xy) - 1)

\* The triangles a Delaunay triangulation of xy may hold: not flat, and no
\* other point strictly inside the circumcircle.
DelaunayTriangles(xy) ==
    { t \in PointIds(xy) \X PointIds(xy) \X PointIds(xy) :
        /\ t[1] < t[2] /\ t[2] < t[3]
        /\ Orient(xy[t[1] + 1], xy[t[2] + 1], xy[t[3] + 1]) # 0
        /\ \A m \in PointIds(xy) \ {t[1], t[2], t[3]} :
              ~InCircumcircle(xy[t[1] + 1], xy[t[2] + 1], xy[t[3] + 1],
                              xy[m + 1]) }

\* An edge of s has s on one side and all of t on the other.
EdgeSeparates(s, t, xy) ==
    \E e \in { <<1, 2, 3>>, <<2, 3, 1>>, <<3, 1, 2>> } :
        \A v \in 1..3 :
            Orient(xy[s[e[1]] + 1], xy[s[e[2]] + 1], xy[t[v] + 1])
              * Orient(xy[s[e[1]] + 1], xy[s[e[2]] + 1], xy[s[e[3]] + 1]) <= 0

InteriorsDisjoint(s, t, xy) == EdgeSeparates(s, t, xy) \/ EdgeSeparates(t, s, xy)

\* scipy.spatial.Delaunay(xy).simplices (line 134): the triangulations
\* Qhull may return.  Where four or more points lie on one circle (every
\* cell of a structured grid) the triangulation is not unique.
Triangulations(xy) ==
    { T \in SUBSET DelaunayTriangles(xy) :
        /\ T # {}
        /\ \A s \in T : \A t \in T \ {s} : InteriorsDisjoint(s, t, xy)
        /\ \A u \in DelaunayTriangles(xy) \ T :
              \E t \in T : ~InteriorsDisjoint(u, t, xy) }

\* Lines 140-143: the first two barycentric coordinates of p in triangle t,
\* from tri.transform (the inverse of the matrix of the edges to the last
\* vertex, applied to p minus the last vertex).
Bary(t, xy, p) ==
    LET r0 == xy[t[1] + 1]
        r1 == xy[t[2] + 1]
        r2 == xy[t[3] + 1]
        D == (r0[1] - r2[1]) * (r1[2] - r2[2]) - (r1[1] - r2[1]) * (r0[2] - r2[2])
        n0 == (r1[2] - r2[2]) * (p[1] - r2[1]) - (r1[1] - r2[1]) * (p[2] - r2[2])
        n1 == (r0[1] - r2[1]) * (p[2] - r2[2]) - (r0[2] - r2[2]) * (p[1] - r2[1])
    IN  <<Rat(n0, D), Rat(n1, D)>>

HstackFirstOnly(b) == <<b[1], b[2], RatSub(RatInt(1), b[1])>>

\* Line 145: wts = hstack(bary, 1 - bary.sum()).
Hstack(b) == <<b[1], b[2], RatSub(RatInt(1), RatAdd(b[1], b[2]))>>

BaryWeights(t, xy, p) == Hstack(Bary(t, xy, p))

\* Whether p lies in the closed triangle t.
InTriangle(t, xy, p) == \A j \in 1..3 : BaryWeights(t, xy, p)[j][1] >= 0

\* find_simplex's answer -1.
NoSimplex == <<-1>>

\* tri.find_simplex(uv) (lines 136, 149): for every point a triangle that
\* holds it, or -1 for a point outside the convex hull.  A point on a shared
\* edge or vertex is in several triangles; the library picks one.
FindSimplexResults(simplices, xy, uv) ==
    { f \in [1..Len(uv) -> simplices \cup {NoSimplex}] :
        \A n \in 1..Len(uv) :
            IF \E t \in simplices : InTriangle(t, xy, uv[n])
            THEN f[n] # NoSimplex /\ InTriangle(f[n], xy, uv[n])
            ELSE f[n] = NoSimplex }

\* np.take(tri.simplices, simplex, axis=0) (lines 138, 140): index -1 takes
\* the last row.
TakeSimplex(last, simplex) == IF simplex = NoSimplex THEN last ELSE simplex

RECURSIVE NonZero(_, _)
\* np.nonzero(...)[0] (line 149): the indices k < n, from 0 and ascending,
\* at which hit is true.
NonZero(hit, n) ==
    IF n = 0 THEN <<>>
    ELSE IF hit[n] THEN Append(NonZero(hit, n - 1), n - 1)
    ELSE NonZero(hit, n - 1)

\* delaunay_interp_weights (lines 124-160), for one outcome of the library
\* calls: the triangulation's last simplex, the located simplices and the
\* order in which the tree reports equidistant points.  The "cell" table
\* keeps np.nonzero's 1-tuple (line 578), which NumPy indexes as the array
\* it holds.
delaunay_interp_weights(xy, uv, last, simplex, order) ==
    [ vtx |-> [n \in 1..Len(uv) |-> TakeSimplex(last, simplex[n])],
      wts |-> [n \in 1..Len(uv) |->
                  BaryWeights(TakeSimplex(last, simplex[n]), xy, uv[n])],
      outsideInd |-> NonZero([n \in 1..Len(uv) |-> simplex[n] = NoSimplex], Len(uv)),
      tree |-> [data |-> xy, order |-> order] ]

\* Every table delaunay_interp_weights may return for xy and uv.
DelaunayTables(xy, uv, order) ==
    UNION { UNION { { delaunay_interp_weights(xy, uv, last, simplex, order) :
                        simplex \in FindSimplexResults(T, xy, uv) } :
                    last \in T } :
            T \in Triangulations(xy) }

\* Lines 548-551, 562-565: the nodes of a structured grid, row by row.
CismXY(x, y) ==
    [k \in 1..(Len(x) * Len(y)) |->
        <<x[((k - 1) % Len(x)) + 1], y[((k - 1) \div Len(x)) + 1]>>]

\* Line 575: the cells of an MPAS source.
InputMpasXY == [k \in 1..Len(inputxCell) |-> <<inputxCell[k], inputyCell[k]>>]

SetMin(A) == CHOOSE a \in A : \A b \in A : a <= b

SetMax(A) == CHOOSE a \in A : \A b \in A : b <= a

\* The source points nearest to p.
NearestIds(data, p) ==
    { k \in PointIds(data) :
        \A m \in PointIds(data) : Dist2(data[k + 1], p) <= Dist2(data[m + 1], p) }

TreeQueryFarthest(tree, p) ==
    CHOOSE k \in PointIds(tree.data) :
        \A m \in PointIds(tree.data) :
            Dist2(tree.data[m + 1], p) <= Dist2(tree.data[k + 1], p)

\* tree.query(p, k=1) (line 202): the index of the nearest source point;
\* which of several equidistant points is reported is the library's choice.
TreeQuery(tree, p) ==
    IF tree.order = "low" THEN SetMin(NearestIds(tree.data, p))
    ELSE SetMax(NearestIds(tree.data, p))

RECURSIVE FlattenRows(_, _)
FlattenRows(m, n) == IF n = 0 THEN <<>> ELSE FlattenRows(m, n - 1) \o m[n]

\* values.flatten() and np.take's flat indexing (lines 192, 203): a 2-D CISM
\* field row by row, a 1-D MPAS field as it is.
Flatten(values, gt) ==
    IF gt = "cell" THEN values ELSE FlattenRows(values, Len(values))

\* Line 192: outfield = einsum('nj,nj->n', take(values, vtx), wts).
Einsum(values, gt, w) ==
    [n \in 1..Len(w.vtx) |->
        RatAdd(RatAdd(
            RatMul(RatInt(Flatten(values, gt)[w.vtx[n][1] + 1]), w.wts[n][1]),
            RatMul(RatInt(Flatten(values, gt)[w.vtx[n][2] + 1]), w.wts[n][2])),
            RatMul(RatInt(Flatten(values, gt)[w.vtx[n][3] + 1]), w.wts[n][3]))]

InSeq(s, v) == \E k \in 1..Len(s) : s[k] = v

delaunay_interpolateNoFallback(values, gt) == Einsum(values, gt, weights[gt])

\* delaunay_interpolate (lines 176-205); gt is one of "x0", "x1", "cell".
delaunay_interpolate(values, gt) ==
    LET w == weights[gt]
        outfield == Einsum(values, gt, w)
    IN  IF Len(w.outsideInd) > 0
        THEN [n \in 1..Len(outfield) |->
                IF InSeq(w.outsideInd, n - 1)
                THEN RatInt(Flatten(values, gt)[TreeQuery(w.tree, mpasXY[n]) + 1])
                ELSE outfield[n]]
        ELSE outfield

---------------------------------------------------------------------------
(* The inputs of a barycentric run. *)

\* Structured sources: the primary axes and, where the file has them, the
\* staggered axes.
DelaunayGrids ==
    { [x1 |-> <<0, 2>>, y1 |-> <<0, 2>>, x0 |-> <<>>, y0 |-> <<>>],
      [x1 |-> <<0, 2, 4>>, y1 |-> <<0, 2>>, x0 |-> <<1, 3>>, y0 |-> <<1, 3>>],
      [x1 |-> <<0, 1, 3>>, y1 |-> <<2, 0>>, x0 |-> <<>>, y0 |-> <<>>] }

\* Unstructured sources: the triangle of the scenario (0,0), (2,0), (0,2)
\* in model units, a triangle with a point inside, and a quadrilateral.
DelaunayPointSets ==
    { <<<<0, 0>>, <<4, 0>>, <<0, 4>>>>,
      <<<<0, 0>>, <<4, 0>>, <<0, 4>>, <<1, 2>>>>,
      <<<<0, 0>>, <<4, 0>>, <<5, 3>>, <<0, 4>>>> }

DelaunayPoints ==
    { <<1, 1>>, <<20, 20>>, <<2, 0>>, <<-1, 1>>, <<2, 2>>, <<5, 1>> }

DelaunayMeshes ==
    UNION { [1..n -> DelaunayPoints] : n \in 1..MaxCells }

\* Source fields over n points, by flat index k = 0 .. n-1: 1, 3, 5, ...
\* (the values of the scenario) and 5, 3, 1, 6, 4, 2.
FlatFields(n) ==
    { [k \in 1..n |-> 2 * k - 1], [k \in 1..n |-> (5 * k) % 7] }

\* The flat field f as rows of length nx.
AsRows(f, nx) ==
    [j \in 1..(Len(f) \div nx) |-> [i \in 1..nx |-> f[(j - 1) * nx + i]]]

\* The source fields of topology gt, in the shape the source file gives them.
DelaunayFields(gt) ==
    IF gt = "cell" THEN FlatFields(Len(inputxCell))
    ELSE IF gt = "x1"
         THEN { AsRows(f, Len(x1)) : f \in FlatFields(Len(x1) * Len(y1)) }
         ELSE { AsRows(f, Len(x0)) : f \in FlatFields(Len(x0) * Len(y0)) }

\* The source points of topology gt.
SourceXY(gt) ==
    IF gt = "cell" THEN InputMpasXY
    ELSE IF gt = "x1" THEN CismXY(x1, y1)
    ELSE CismXY(x0, y0)

\* Lines 489-500: what the reading of the CISM coordinates has printed: the
\* message of line 500 for a source without x0 and y0.  (A CISM source of
\* these grids declares the dimensions level and stagwbndlevel, so lines
\* 469 and 474 print nothing; every grid has x1 and y1.)
SourceGridMessages ==
    IF filetype = "cism" /\ x0 = <<>>
    THEN <<"Input file is missing x0 and/or y0.">>
    ELSE <<>>

InitDelaunay ==
    /\ pc = "start"
    /\ filetype \in {"cism", "mpas"}
    /\ IF filetype = "cism"
       THEN /\ \E g \in DelaunayGrids :
                  /\ x1 = g.x1 /\ y1 = g.y1
                  /\ x0 = g.x0 /\ y0 = g.y0
            /\ inputxCell = <<>>
            /\ inputyCell = <<>>
       ELSE /\ \E ps \in DelaunayPointSets :
                  /\ inputxCell = [k \in 1..Len(ps) |-> ps[k][1]]
                  /\ inputyCell = [k \in 1..Len(ps) |-> ps[k][2]]
            /\ x1 = <<>> /\ y1 = <<>>
            /\ x0 = <<>> /\ y0 = <<>>
    /\ \E mesh \in DelaunayMeshes :
          /\ xCell = [i \in 1..Len(mesh) |-> mesh[i][1]]
          /\ yCell = [i \in 1..Len(mesh) |-> mesh[i][2]]
    /\ gridType = "none"
    /\ InputField = <<>>
    /\ cellIndex = <<>>
    /\ MPASfield = <<>>
    /\ weights = NoWeights
    /\ EsmfIdle
    /\ VerticalIdle
    /\ RunIdle
    /\ diagnostics = SourceGridMessages

\* Lines 544-579: the barycentric tables of every topology of the source.
SetupDelaunay ==
    /\ pc = "start"
    /\ pc' = "ready"
    /\ \E order \in {"low", "high"} :
        IF filetype = "cism"
        THEN \E w1 \in DelaunayTables(CismXY(x1, y1), mpasXY, order) :
                IF x0 # <<>>
                THEN \E w0 \in DelaunayTables(CismXY(x0, y0), mpasXY, order) :
                        weights' = [weights EXCEPT !.x1 = w1, !.x0 = w0]
                ELSE weights' = [weights EXCEPT !.x1 = w1]
        ELSE \E wc \in DelaunayTables(InputMpasXY, mpasXY, order) :
                weights' = [weights EXCEPT !.cell = wc]
    /\ UNCHANGED <<gridType, x0, y0, x1, y1, xCell, yCell, InputField,
                   cellIndex, MPASfield, filetype, inputxCell, inputyCell>>
    /\ UNCHANGED esmfVars
    /\ UNCHANGED verticalVars
    /\ UNCHANGED runVars
    /\ UNCHANGED diagnostics

\* A call of delaunay_interpolate(InputField, gridType) (line 234) for a
\* field of a topology of the source.
CallDelaunayInterpolate ==
    /\ pc = "ready"
    /\ \E gt \in {"x0", "x1", "cell"} :
          /\ weights[gt] # NoTable
          /\ gridType' = gt
          /\ \E f \in DelaunayFields(gt) :
                /\ InputField' = f
                /\ MPASfield' = delaunay_interpolate(f, gt)
    /\ pc' = "done"
    /\ UNCHANGED <<x0, y0, x1, y1, xCell, yCell, cellIndex, filetype>>
    /\ UNCHANGED delaunayVars
    /\ UNCHANGED esmfVars
    /\ UNCHANGED verticalVars
    /\ UNCHANGED runVars
    /\ UNCHANGED diagnostics

NextDelaunay == SetupDelaunay \/ CallDelaunayInterpolate

SpecDelaunay == InitDelaunay /\ [][NextDelaunay]_vars

---------------------------------------------------------------------------
(* Claims about the barycentric method. *)

\* p lies outside the convex hull of xy: some line through two source
\* points has every source point on one side and p strictly on the other.
OutsideHull(p, xy) ==
    \E a \in PointIds(xy), b \in PointIds(xy) :
        /\ xy[a + 1] # xy[b + 1]
        /\ \A m \in PointIds(xy) : Orient(xy[a + 1], xy[b + 1], xy[m + 1]) >= 0
        /\ Orient(xy[a + 1], xy[b + 1], p) < 0

\* p lies strictly inside the convex hull of xy: every line through p and a
\* source point has source points strictly on both sides.
StrictlyInsideHull(p, xy) ==
    \A q \in PointIds(xy) :
        xy[q + 1] # p =>
            /\ \E m \in PointIds(xy) : Orient(p, xy[q + 1], xy[m + 1]) > 0
            /\ \E m \in PointIds(xy) : Orient(p, xy[q + 1], xy[m + 1]) < 0

\* C3: after delaunay_interpolate, for each topology ("x1", "x0", "cell"),
\* every destination point outside the convex hull of the source points
\* holds exactly the source value at a nearest source point.
C3_OutsideGetsNearest ==
    pc = "done" =>
        \A n \in 1..Len(xCell) :
            OutsideHull(mpasXY[n], SourceXY(gridType)) =>
                \E k \in NearestIds(SourceXY(gridType), mpasXY[n]) :
                    MPASfield[n] = RatInt(Flatten(InputField, gridType)[k + 1])

\* On the "cell" topology a point outside the hull holds the nearest source
\* value, which differs from the barycentric value computed for it.
C3_Witness ==
    /\ pc = "done"
    /\ gridType = "cell"
    /\ \E n \in 1..Len(xCell) :
          /\ OutsideHull(mpasXY[n], SourceXY(gridType))
          /\ InSeq(weights[gridType].outsideInd, n - 1)
          /\ MPASfield[n] # Einsum(InputField, gridType, weights[gridType])[n]
          /\ \E k \in NearestIds(SourceXY(gridType), mpasXY[n]) :
                MPASfield[n] = RatInt(Flatten(InputField, gridType)[k + 1])

\* The scenario of C4 in model units: source points (0,0), (2,0), (0,2)
\* with values 1, 3, 5.
C4_Scenario ==
    /\ pc = "done"
    /\ gridType = "cell"
    /\ inputxCell = <<0, 4, 0>>
    /\ inputyCell = <<0, 0, 4>>
    /\ InputField = <<1, 3, 5>>

\* C4 as stated: in the scenario the destination (0.5, 0.5) gets the plane
\* value 1 + x + 2y = 2.5 and the destination (10, 10) gets exactly 5.
C4_OutsideYieldsFive ==
    C4_Scenario =>
        \A n \in 1..Len(xCell) :
            /\ mpasXY[n] = <<1, 1>> => MPASfield[n] = Rat(5, 2)
            /\ mpasXY[n] = <<20, 20>> => MPASfield[n] = RatInt(5)

\* C4 amended: the destination (0.5, 0.5) gets the plane value 2.5; the
\* destination (10, 10) is equally far from (2,0) and (0,2) and gets the
\* value of one of these two nearest points, 3 or 5.
C4_OutsideYieldsNearest ==
    C4_Scenario =>
        \A n \in 1..Len(xCell) :
            /\ mpasXY[n] = <<1, 1>> => MPASfield[n] = Rat(5, 2)
            /\ mpasXY[n] = <<20, 20>> =>
                  /\ NearestIds(InputMpasXY, mpasXY[n]) = {1, 2}
                  /\ MPASfield[n] \in {RatInt(3), RatInt(5)}

\* The scenario has run on both destinations; (10, 10) took the value 3.
C4_Witness ==
    /\ C4_Scenario
    /\ mpasXY = <<<<1, 1>>, <<20, 20>>>>
    /\ MPASfield = <<Rat(5, 2), RatInt(3)>>

\* The least and the greatest source value at the stored vertices of cell n.
VertexValues(n) ==
    { Flatten(InputField, gridType)[weights[gridType].vtx[n][j] + 1] : j \in 1..3 }

\* C5: the three stored weights of every destination point of every built
\* table sum to 1; for a destination point strictly inside the convex hull
\* the weights are non-negative and the interpolated value lies between the
\* least and the greatest of the three source values at its vertices.
C5_ConvexCombination ==
    /\ pc \in {"ready", "done"} =>
          \A gt \in {"x0", "x1", "cell"} :
              \A n \in 1..Len(weights[gt].wts) :
                  RatAdd(RatAdd(weights[gt].wts[n][1], weights[gt].wts[n][2]),
                         weights[gt].wts[n][3]) = RatInt(1)
    /\ pc = "done" =>
          \A n \in 1..Len(xCell) :
              StrictlyInsideHull(mpasXY[n], SourceXY(gridType)) =>
                  /\ \A j \in 1..3 : weights[gridType].wts[n][j][1] >= 0
                  /\ RatLeq(RatInt(SetMin(VertexValues(n))), MPASfield[n])
                  /\ RatLeq(MPASfield[n], RatInt(SetMax(VertexValues(n))))

\* A point strictly inside the hull with three positive weights and a value
\* strictly between the least and the greatest vertex value.
C5_Witness ==
    /\ pc = "done"
    /\ \E n \in 1..Len(xCell) :
          /\ StrictlyInsideHull(mpasXY[n], SourceXY(gridType))
          /\ \A j \in 1..3 : weights[gridType].wts[n][j][1] > 0
          /\ ~RatLeq(MPASfield[n], RatInt(SetMin(VertexValues(n))))
          /\ ~RatLeq(RatInt(SetMax(VertexValues(n))), MPASfield[n])

---------------------------------------------------------------------------
(* ESMF_interp (lines 75-85). *)

\* The flat field of n entries, all v.
Filled(n, v) == [k \in 1..n |-> v]

EsmfInitialOnes(n) == Filled(n, 1)

\* Line 79: destinationField = np.zeros(xCell.shape).
EsmfInitial(n) == Filled(n, 0)

\* Python's a[k] = v for an index in range.
PySet(a, k, v) ==
    IF k >= 0 THEN [a EXCEPT ![k + 1] = v] ELSE [a EXCEPT ![Len(a) + k + 1] = v]

\* Whether line 82 can run for triple i (numbered from 1): both of its
\* indices, row[i]-1 into destinationField and col[i] into sourceFieldFlat,
\* are in range.
TripleReadable(dest, flat, i) ==
    PyInRange(dest, row[i] - 1) /\ PyInRange(flat, col[i])

RECURSIVE EsmfLoop(_, _, _)
\* Lines 81-84 from triple i on.  A triple whose index is out of range
\* raises IndexError; the except clause (lines 83-84) ends the loop and the
\* function goes on to line 85 with what has been accumulated.
EsmfLoop(dest, flat, i) ==
    IF i > Len(row) THEN [dst |-> dest, performed |-> i - 1, raised |-> FALSE]
    ELSE IF ~TripleReadable(dest, flat, i)
         THEN [dst |-> dest, performed |-> i - 1, raised |-> TRUE]
         ELSE EsmfLoop(PySet(dest, row[i] - 1,
                             PyAt(dest, row[i] - 1) + S[i] * PyAt(flat, col[i])),
                       flat, i + 1)

\* ESMF_interp (lines 75-85): the returned destinationField, with the number
\* of triples line 82 completed and whether the except clause ran.  Without
\* a weight file row is undefined: len(row) raises NameError at line 81,
\* which the except clause catches as well.
ESMF_interp(sourceField) ==
    IF ~weightsLoaded
    THEN [dst |-> EsmfInitial(Len(xCell)), performed |-> 0, raised |-> TRUE]
    ELSE EsmfLoop(EsmfInitial(Len(xCell)),
                  FlattenRows(sourceField, Len(sourceField)), 1)

---------------------------------------------------------------------------
(* The inputs of an ESMF run. *)

\* The weights of the triples.
EsmfWeights == {1, 2}

\* Source fields on a 2 x 2 structured grid.
EsmfFields ==
    { <<<<1, 2>>, <<3, 4>>>>, <<<<0, 1>>, <<0, -1>>>>, <<<<2, 0>>, <<1, 1>>>> }

\* The number of points of the source grid.
EsmfSourcePoints == 4

\* The scalars of the linear combinations.
Scalars == {-1, 2}

\* a*f + b*g, entry by entry.
Combine(a, f, b, g) ==
    [j \in 1..Len(f) |-> [i \in 1..Len(f[j]) |-> a * f[j][i] + b * g[j][i]]]

\* xCell and yCell of a mesh of n cells (ESMF_interp reads only the shape).
EsmfMesh(n) == [k \in 1..n |-> k - 1]

InitESMF ==
    /\ pc = "start"
    /\ filetype = "cism"
    /\ gridType = "x1"
    /\ x1 = <<0, 1>> /\ y1 = <<0, 1>>
    /\ x0 = <<>> /\ y0 = <<>>
    /\ \E n \in 1..MaxCells : xCell = EsmfMesh(n) /\ yCell = EsmfMesh(n)
    /\ InputField = <<>>
    /\ cellIndex = <<>>
    /\ MPASfield = <<>>
    /\ inputxCell = <<>>
    /\ inputyCell = <<>>
    /\ weights = NoWeights
    /\ weightsLoaded \in BOOLEAN
    /\ IF weightsLoaded
       THEN \E n \in 0..MaxTriples :
                /\ S \in [1..n -> EsmfWeights]
                /\ row \in [1..n -> 1..Len(xCell)]
                /\ col \in [1..n -> 1..EsmfSourcePoints]
       ELSE S = <<>> /\ row = <<>> /\ col = <<>>
    /\ esmfLog = <<>>
    /\ VerticalIdle
    /\ RunIdle
    /\ diagnostics = <<>>

\* ESMF_interp(sourceField), recorded.
EsmfCall(sourceField) ==
    /\ InputField' = sourceField
    /\ MPASfield' = ESMF_interp(sourceField).dst
    /\ esmfLog' = Append(esmfLog,
                         [src |-> sourceField,
                          dst |-> ESMF_interp(sourceField).dst,
                          performed |-> ESMF_interp(sourceField).performed,
                          raised |-> ESMF_interp(sourceField).raised])
    /\ UNCHANGED <<gridType, x0, y0, x1, y1, xCell, yCell, cellIndex, filetype,
                   S, row, col, weightsLoaded>>
    /\ UNCHANGED delaunayVars
    /\ UNCHANGED verticalVars
    /\ UNCHANGED runVars
    /\ UNCHANGED diagnostics

\* A call of ESMF_interp(InputField) (line 245) on a source field.
CallESMF_interp ==
    /\ pc = "start"
    /\ Len(esmfLog) < 2
    /\ \E f \in EsmfFields : EsmfCall(f)
    /\ pc' = pc

\* A call of ESMF_interp on a linear combination of the two fields
\* interpolated before.
CallESMF_interpCombined ==
    /\ pc = "start"
    /\ Len(esmfLog) = 2
    /\ \E a \in Scalars, b \in Scalars :
          EsmfCall(Combine(a, esmfLog[1].src, b, esmfLog[2].src))
    /\ pc' = "done"

NextESMF == CallESMF_interp \/ CallESMF_interpCombined

SpecESMF == InitESMF /\ [][NextESMF]_vars

---------------------------------------------------------------------------
(* Claims about ESMF_interp. *)

RECURSIVE SumTriples(_, _, _)
\* The sum of term[i] over the triples i <= n that satisfy pick[i].
SumTriples(pick, term, n) ==
    IF n = 0 THEN 0
    ELSE SumTriples(pick, term, n - 1) + (IF pick[n] THEN term[n] ELSE 0)

\* The sum, over the triples of destination cell c (numbered from 0) whose
\* source index can be read, of S[i] * flat[col[i] + shift]: shift 0 reads
\* col[i] as the code does, shift -1 reads col[i] as a 1-based index.
CellSum(flat, c, shift) ==
    SumTriples([i \in 1..Len(row) |->
                   row[i] - 1 = c /\ 0 <= col[i] + shift
                     /\ col[i] + shift < Len(flat)],
               [i \in 1..Len(row) |->
                   IF 0 <= col[i] + shift /\ col[i] + shift < Len(flat)
                   THEN S[i] * flat[col[i] + shift + 1] ELSE 0],
               Len(row))

\* C6: every call of ESMF_interp with a weight file read returns a field
\* with one entry per destination cell in which every triple i has been
\* performed, destination[row[i]-1] += S[i] * source_flat[col[i]]: each cell
\* holds the sum over all of its triples, and 0 if it has none.
C6_EveryTripleAccumulated ==
    \A k \in 1..Len(esmfLog) :
        weightsLoaded =>
            /\ Len(esmfLog[k].dst) = Len(xCell)
            /\ esmfLog[k].performed = Len(row)
            /\ \A c \in 0..(Len(xCell) - 1) :
                  esmfLog[k].dst[c + 1] =
                      CellSum(FlattenRows(esmfLog[k].src, 2), c, 0)

\* C7: ESMF_interp(a*f + b*g) = a*ESMF_interp(f) + b*ESMF_interp(g) in
\* every destination cell, for the same triples.
C7_Linear ==
    Len(esmfLog) = 3 =>
        \A a \in Scalars, b \in Scalars :
            esmfLog[3].src = Combine(a, esmfLog[1].src, b, esmfLog[2].src) =>
                \A c \in 1..Len(xCell) :
                    esmfLog[3].dst[c] =
                        a * esmfLog[1].dst[c] + b * esmfLog[2].dst[c]

\* Three calls on fields f, g and 2f - g with two triples on one cell, all
\* performed, and a non-zero result.
C7_Witness ==
    /\ Len(esmfLog) = 3
    /\ Len(row) = 2
    /\ row[1] = row[2]
    /\ esmfLog[1].src # esmfLog[2].src
    /\ esmfLog[3].src = Combine(2, esmfLog[1].src, -1, esmfLog[2].src)
    /\ ~esmfLog[3].raised
    /\ esmfLog[3].dst[row[1]] # 0
    /\ esmfLog[3].dst[row[1]] =
          2 * esmfLog[1].dst[row[1]] - esmfLog[2].dst[row[1]]

\* C8: row and col are 1-based: a triple (r, c, w) adds w times the c-th
\* element of the flattened source field, counting from 1, to the r-th
\* destination cell, and c = number of source points is a valid reference.
C8_OneBasedColumns ==
    \A k \in 1..Len(esmfLog) :
        weightsLoaded =>
            /\ esmfLog[k].performed = Len(row)
            /\ \A c \in 0..(Len(xCell) - 1) :
                  esmfLog[k].dst[c + 1] =
                      CellSum(FlattenRows(esmfLog[k].src, 2), c, -1)

\* C16: no error inside ESMF_interp is swallowed without a diagnostic: when
\* an index is out of range or the weight arrays were never loaded, the run
\* fails or a diagnostic is printed, and no field is returned as if the
\* call had succeeded.
C16_NoSilentError ==
    \A k \in 1..Len(esmfLog) :
        esmfLog[k].raised =>
            \/ pc \notin {"start", "done"}
            \/ diagnostics # <<>>

---------------------------------------------------------------------------
(* Vertical re-layering (lines 355-374, 384-388). *)

\* The tolerance 1.0e-6 of lines 357, 360, 366 and 369, in the model's unit
\* of vertical coordinate (0.5e-6).
Tolerance == 2

SeqMin(s) == SetMin({ s[k] : k \in 1..Len(s) })

SeqMax(s) == SetMax({ s[k] : k \in 1..Len(s) })

\* np.interp's search: the last index j (from 1) such that no sample up to
\* j exceeds x, for xp[1] <= x <= xp[Len(xp)].
Bracket(x, xp) ==
    IF \E i \in 2..Len(xp) : x < xp[i]
    THEN SetMin({ i \in 2..Len(xp) : x < xp[i] }) - 1
    ELSE Len(xp)

InterpAtUpperNode(x, xp, fp) ==
    IF x > xp[Len(xp)] THEN RatInt(fp[Len(xp)])
    ELSE IF x < xp[1] THEN RatInt(fp[1])
    ELSE LET j == Bracket(x, xp)
         IN  IF j = Len(xp) THEN RatInt(fp[j])
             ELSE IF xp[j] = x THEN RatInt(fp[j + 1])
             ELSE RatAdd(RatInt(fp[j]),
                         Rat((fp[j + 1] - fp[j]) * (x - xp[j]), xp[j + 1] - xp[j]))

InterpAtExtrapolating(x, xp, fp) ==
    LET j == IF x > xp[Len(xp)] THEN Len(xp) - 1
             ELSE IF x < xp[1] THEN 1
             ELSE IF Bracket(x, xp) = Len(xp) THEN Len(xp) - 1
             ELSE Bracket(x, xp)
    IN  IF xp[j + 1] = xp[j] THEN RatInt(fp[j])
        ELSE RatAdd(RatInt(fp[j]),
                    Rat((fp[j + 1] - fp[j]) * (x - xp[j]), xp[j + 1] - xp[j]))

\* np.interp(x, xp, fp) at one coordinate x (line 387): fp's first value
\* below xp's first sample, fp's last value above xp's last sample, the
\* sample's value on a sample and the linear interpolant between samples.
InterpAt(x, xp, fp) ==
    IF x > xp[Len(xp)] THEN RatInt(fp[Len(xp)])
    ELSE IF x < xp[1] THEN RatInt(fp[1])
    ELSE LET j == Bracket(x, xp)
         IN  IF j = Len(xp) THEN RatInt(fp[j])
             ELSE IF xp[j] = x THEN RatInt(fp[j])
             ELSE RatAdd(RatInt(fp[j]),
                         Rat((fp[j + 1] - fp[j]) * (x - xp[j]), xp[j + 1] - xp[j]))

\* mpas_grid_input_layers[:, i]: the column of cell i (from 1).
Column(layers, i) == [z \in 1..Len(layers) |-> layers[z][i]]

\* vertical_interp_MPAS_grid (lines 384-388): for every cell the column
\* interpolated to the destination coordinates; nCells is line 444's.
vertical_interp_MPAS_grid(layers, dest, inp) ==
    [i \in 1..Len(xCell) |->
        [k \in 1..Len(dest) |-> InterpAt(dest[k], inp, Column(layers, i))]]

\* Lines 355-363: the first source coordinate lowered by the tolerance when
\* the source minimum is above the destination minimum by less than it.
NudgeMin(inp, dest) ==
    IF SeqMin(inp) > SeqMin(dest) /\ SeqMin(inp) - Tolerance < SeqMin(dest)
    THEN [inp EXCEPT ![1] = @ - Tolerance]
    ELSE inp

\* Lines 364-373: the last source coordinate raised by the tolerance when
\* the source maximum is below the destination maximum and, as line 366
\* tests, the raised maximum exceeds the destination minimum.
NudgeMax(inp, dest) ==
    IF SeqMax(inp) < SeqMax(dest) /\ SeqMax(inp) + Tolerance > SeqMin(dest)
    THEN [inp EXCEPT ![Len(inp)] = @ + Tolerance]
    ELSE inp

\* Lines 355-373.
Nudged(inp, dest) == NudgeMax(NudgeMin(inp, dest), dest)

\* Lines 355-363: the warning of line 363, printed when the source minimum
\* is above the destination minimum and line 357's test fails.
WarnMin(inp, dest) ==
    IF SeqMin(inp) > SeqMin(dest) /\ ~(SeqMin(inp) - Tolerance < SeqMin(dest))
    THEN <<"WARNING: input_layers.min() > destVertCoord.min()">>
    ELSE <<>>

\* Lines 364-373: the warning of line 373, printed when the source maximum
\* is below the destination maximum and line 366's test fails.
WarnMax(inp, dest) ==
    IF SeqMax(inp) < SeqMax(dest) /\ ~(SeqMax(inp) + Tolerance > SeqMin(dest))
    THEN <<"WARNING: input_layers.max() < destVertCoord.max()">>
    ELSE <<>>

\* The warnings of lines 355-373, in the order printed.
NudgeWarnings(inp, dest) ==
    WarnMin(inp, dest) \o WarnMax(NudgeMin(inp, dest), dest)

---------------------------------------------------------------------------
(* The inputs of a vertical re-layering. *)

\* Vertical coordinates.
SigmaLevels == {0, 1, 3, 4, 6}

NonDecreasing(s) == \A k \in 1..(Len(s) - 1) : s[k] <= s[k + 1]

\* Non-decreasing coordinate sequences of n levels.
LevelSeqs(n) == { s \in [1..n -> SigmaLevels] : NonDecreasing(s) }

\* The values of one column on n source layers.
Columns(n) == { [z \in 1..n |-> z * z], [z \in 1..n |-> (4 * z) % 5] }

InitVertical ==
    /\ pc = "start"
    /\ filetype = "cism"
    /\ gridType = "x1"
    /\ x1 = <<0, 1>> /\ y1 = <<0, 1>>
    /\ x0 = <<>> /\ y0 = <<>>
    /\ \E n \in 1..MaxCells : xCell = EsmfMesh(n) /\ yCell = EsmfMesh(n)
    /\ InputField = <<>>
    /\ cellIndex = <<>>
    /\ MPASfield = <<>>
    /\ inputxCell = <<>>
    /\ inputyCell = <<>>
    /\ weights = NoWeights
    /\ EsmfIdle
    /\ \E n \in 2..MaxLayers :
          /\ sourceLayers \in LevelSeqs(n)
          /\ \E cols \in [1..Len(xCell) -> Columns(n)] :
                mpas_grid_input_layers =
                    [z \in 1..n |-> [i \in 1..Len(xCell) |-> cols[i][z]]]
    /\ \E m \in 1..MaxLayers : destVertCoord \in LevelSeqs(m)
    /\ input_layers = <<>>
    /\ RunIdle
    /\ diagnostics = <<>>

\* The end of interpolate_field_with_layers (lines 355-379): the source
\* coordinates read at line 278 are nudged and the field on the source
\* layers is interpolated to the destination coordinates.
VerticalInterpolation ==
    /\ pc = "start"
    /\ input_layers' = Nudged(sourceLayers, destVertCoord)
    /\ MPASfield' = vertical_interp_MPAS_grid(mpas_grid_input_layers,
                                              destVertCoord, input_layers')
    /\ diagnostics' = diagnostics \o NudgeWarnings(sourceLayers, destVertCoord)
    /\ pc' = "done"
    /\ UNCHANGED <<gridType, x0, y0, x1, y1, xCell, yCell, InputField,
                   cellIndex, filetype, sourceLayers, destVertCoord,
                   mpas_grid_input_layers>>
    /\ UNCHANGED delaunayVars
    /\ UNCHANGED esmfVars
    /\ UNCHANGED runVars

NextVertical == VerticalInterpolation

SpecVertical == InitVertical /\ [][NextVertical]_vars

---------------------------------------------------------------------------
(* Claims about the vertical re-layering. *)

Min2(a, b) == IF a < b THEN a ELSE b

Max2(a, b) == IF a < b THEN b ELSE a

\* v is the piecewise-linear interpolant at x of samples j and j+1, and lies
\* between the two sample values.
Interpolates(v, x, xp, fp, j) ==
    /\ xp[j] <= x /\ x <= xp[j + 1]
    /\ RatLeq(RatInt(Min2(fp[j], fp[j + 1])), v)
    /\ RatLeq(v, RatInt(Max2(fp[j], fp[j + 1])))
    /\ v[1] * (xp[j + 1] - xp[j]) =
          v[2] * (fp[j] * (xp[j + 1] - x) + fp[j + 1] * (x - xp[j]))

\* C9: for every destination cell, a destination coordinate below the least
\* source coordinate gets the column's first-layer value, one above the
\* greatest source coordinate gets the column's last-layer value, and one
\* within the source range gets the piecewise-linear interpolant of two
\* adjacent source layers that bracket it, a value between theirs.
C9_FlatExtrapolation ==
    pc = "done" =>
        \A i \in 1..Len(xCell) : \A k \in 1..Len(destVertCoord) :
            LET x == destVertCoord[k]
                fp == Column(mpas_grid_input_layers, i)
            IN  /\ x < SeqMin(input_layers) => MPASfield[i][k] = RatInt(fp[1])
                /\ x > SeqMax(input_layers) =>
                      MPASfield[i][k] = RatInt(fp[Len(fp)])
                /\ (SeqMin(input_layers) <= x /\ x <= SeqMax(input_layers)) =>
                      \E j \in 1..(Len(input_layers) - 1) :
                          Interpolates(MPASfield[i][k], x, input_layers, fp, j)

\* One column has a level below the source range holding the first-layer
\* value, a level above it holding the last-layer value, and a level
\* strictly between two source layers holding a value strictly between
\* theirs; linear extrapolation would give other values at the ends.
C9_Witness ==
    /\ pc = "done"
    /\ \E i \in 1..Len(xCell) :
          LET fp == Column(mpas_grid_input_layers, i)
          IN  /\ Len(destVertCoord) = 3
              /\ destVertCoord[1] < SeqMin(input_layers)
              /\ MPASfield[i][1] = RatInt(fp[1])
              /\ destVertCoord[3] > SeqMax(input_layers)
              /\ MPASfield[i][3] = RatInt(fp[Len(fp)])
              /\ fp[1] # fp[2]
              /\ input_layers[1] < destVertCoord[2]
              /\ destVertCoord[2] < input_layers[2]
              /\ MPASfield[i][2][2] > 1

\* C10 as stated: for any non-decreasing source coordinates, repeated values
\* included, re-layering onto the source's own coordinates returns the
\* original column value at every level of every cell.
C10_IdempotentNonDecreasing ==
    (pc = "done" /\ destVertCoord = sourceLayers) =>
        \A i \in 1..Len(xCell) : \A k \in 1..Len(destVertCoord) :
            MPASfield[i][k] = RatInt(mpas_grid_input_layers[k][i])

StrictlyIncreasing(s) == \A k \in 1..(Len(s) - 1) : s[k] < s[k + 1]

\* The last source layer at the coordinate of layer k.
LastLayerAt(s, k) == SetMax({ z \in 1..Len(s) : s[z] = s[k] })

\* C10 amended: for strictly increasing source coordinates, re-layering
\* onto the source's own coordinates returns the original column value at
\* every level of every cell; where the source coordinates repeat a value,
\* every level at that coordinate gets the value of the last source layer
\* at that coordinate.
C10_IdempotentStrictlyIncreasing ==
    (pc = "done" /\ destVertCoord = sourceLayers) =>
        \A i \in 1..Len(xCell) : \A k \in 1..Len(destVertCoord) :
            /\ StrictlyIncreasing(sourceLayers) =>
                  MPASfield[i][k] = RatInt(mpas_grid_input_layers[k][i])
            /\ MPASfield[i][k] =
                  RatInt(mpas_grid_input_layers[LastLayerAt(sourceLayers, k)][i])

\* A column of three strictly increasing levels, not constant, re-layered
\* onto its own coordinates and reproduced.
C10_Witness ==
    /\ pc = "done"
    /\ destVertCoord = sourceLayers
    /\ Len(sourceLayers) = 3
    /\ StrictlyIncreasing(sourceLayers)
    /\ input_layers = sourceLayers
    /\ mpas_grid_input_layers[1][1] # mpas_grid_input_layers[2][1]
    /\ \A k \in 1..3 : MPASfield[1][k] = RatInt(mpas_grid_input_layers[k][1])

---------------------------------------------------------------------------
(* The destination's vertical coordinates (lines 405-436).  The layer
   thickness fractions are integers of a fixed unit and the coordinates
   built from them are in half that unit, so that 0.5 * f is f. *)

\* The state of the horizontal interpolators.
horizontalVars == <<gridType, x0, y0, x1, y1, xCell, yCell, InputField,
                    cellIndex, MPASfield, filetype>>

\* No horizontal interpolation is set up.
HorizontalIdle ==
    /\ gridType = "none"
    /\ x0 = <<>> /\ y0 = <<>>
    /\ x1 = <<>> /\ y1 = <<>>
    /\ xCell = <<>> /\ yCell = <<>>
    /\ InputField = <<>>
    /\ cellIndex = <<>>
    /\ MPASfield = <<>>
    /\ filetype = "cism"
    /\ inputxCell = <<>>
    /\ inputyCell = <<>>
    /\ weights = NoWeights

RECURSIVE CentersLoop(_, _, _, _)
\* Lines 420-421 from level k (from 0) on, for nVertLevels = n: the array
\* and whether a read of layerThicknessFractions raised IndexError.
CentersLoop(c, f, k, n) ==
    IF k >= n THEN [arr |-> c, raised |-> FALSE]
    ELSE IF ~(PyInRange(f, k - 1) /\ PyInRange(f, k))
         THEN [arr |-> c, raised |-> TRUE]
         ELSE CentersLoop(PySet(c, k, PyAt(c, k - 1) + PyAt(f, k - 1) + PyAt(f, k)),
                          f, k + 1, n)

\* Lines 418-421: mpasLayerCenters from the fractions f.
LayerCenters(f, n) ==
    IF n = 0 \/ Len(f) = 0 THEN [arr |-> Filled(n, 0), raised |-> TRUE]
    ELSE CentersLoop(PySet(Filled(n, 0), 0, f[1]), f, 1, n)

RECURSIVE InterfacesLoop(_, _, _, _)
\* Lines 432-433 from k on, for nVertInterfaces = m: the loop assigns to
\* mpasLayerCenters (c); it stops at the first index out of range.
InterfacesLoop(c, f, k, m) ==
    IF k >= m THEN [arr |-> c, raised |-> FALSE]
    ELSE IF ~(PyInRange(c, k - 1) /\ PyInRange(f, k) /\ PyInRange(c, k))
         THEN [arr |-> c, raised |-> TRUE]
         ELSE InterfacesLoop(PySet(c, k, PyAt(c, k - 1) + 2 * PyAt(f, k)),
                             f, k + 1, m)

\* Lines 430-433 for nVertInterfaces = m, with mpasLayerCenters = c:
\* mpasLayerInterfaces is bound to m zeros, line 431 assigns its first
\* entry, which raises IndexError when m = 0, and the loop follows.  arr is
\* mpasLayerCenters afterwards.
LayerInterfaces(c, f, m) ==
    IF m = 0 THEN [arr |-> c, raised |-> TRUE]
    ELSE InterfacesLoop(c, f, 1, m)

\* The thickness fractions of a layer.
Fractions == {1, 2, 3}

\* A dimension or variable the destination file has.
HasDim(d) == d \in DOMAIN MPASfile.dimensions

HasVar(v) == v \in DOMAIN MPASfile.variables

InitSigma ==
    /\ pc = "start"
    /\ HorizontalIdle
    /\ EsmfIdle
    /\ VerticalIdle
    /\ diagnostics = <<>>
    /\ args = DefaultArgs
    /\ inputFile = NoFile
    /\ \E n \in 1..MaxLayers, present \in SUBSET {"nVertLevels", "nVertInterfaces"} :
          \E ltf \in [1..n -> Fractions], hasLtf \in BOOLEAN, m \in {0, n + 1} :
              /\ hasLtf => "nVertLevels" \in present
              /\ ~hasLtf => ltf = [k \in 1..n |-> 1]
              /\ "nVertInterfaces" \notin present => m = n + 1
              /\ MPASfile =
                    [dimensions |->
                        [d \in present |->
                            IF d = "nVertLevels" THEN n ELSE m],
                     variables |->
                        [v \in IF hasLtf THEN {"layerThicknessFractions"} ELSE {}
                            |-> ltf]]
    /\ MPASfieldName = 0
    /\ timelev = 0
    /\ nn_idx = NoNN
    /\ writes = <<>>
    /\ mpasLayerCenters = <<>>
    /\ mpasLayerInterfaces = <<>>
    /\ defined = {}

\* Lines 405-436: nVertLevels, nVertInterfaces, mpasLayerCenters and
\* mpasLayerInterfaces, each in its own try block.
SetupSigma ==
    /\ pc = "start"
    /\ LET f == MPASfile.variables["layerThicknessFractions"]
           centersBound == HasVar("layerThicknessFractions") /\ HasDim("nVertLevels")
           centers == LayerCenters(f, MPASfile.dimensions["nVertLevels"])
           interfacesBound ==
               HasVar("layerThicknessFractions") /\ HasDim("nVertInterfaces")
           after == LayerInterfaces(centers.arr, f,
                                    MPASfile.dimensions["nVertInterfaces"])
       IN  /\ defined' =
                 { d \in {"nVertLevels", "nVertInterfaces"} : HasDim(d) }
                   \cup (IF centersBound THEN {"mpasLayerCenters"} ELSE {})
                   \cup (IF interfacesBound THEN {"mpasLayerInterfaces"} ELSE {})
           /\ mpasLayerCenters' =
                 IF ~centersBound THEN <<>>
                 ELSE IF interfacesBound THEN after.arr
                 ELSE centers.arr
           /\ mpasLayerInterfaces' =
                 IF interfacesBound
                 THEN Filled(MPASfile.dimensions["nVertInterfaces"], 0)
                 ELSE <<>>
           /\ diagnostics' =
                 diagnostics
                   \o (IF HasDim("nVertLevels") THEN <<>>
                       ELSE <<"Output file is missing the dimension nVertLevels.">>)
                   \o (IF HasDim("nVertInterfaces") THEN <<>>
                       ELSE <<"Output file is missing the dimension nVertInterfaces.">>)
                   \o (IF centersBound /\ ~centers.raised THEN <<>>
                       ELSE <<"Trouble calculating mpas layer centers.">>)
                   \o (IF interfacesBound /\ ~after.raised THEN <<>>
                       ELSE <<"Trouble calculating mpas layer interfaces.">>)
    /\ pc' = "ready"
    /\ UNCHANGED horizontalVars
    /\ UNCHANGED delaunayVars
    /\ UNCHANGED esmfVars
    /\ UNCHANGED verticalVars
    /\ UNCHANGED <<args, inputFile, MPASfile, MPASfieldName, timelev, nn_idx,
                   writes>>

NextSigma == SetupSigma

SpecSigma == InitSigma /\ [][NextSigma]_vars

\* The layer-centers construction: 0.5*f[0], then the previous centre plus
\* half of the previous and half of this layer's fraction.
CentersOf(f) == [k \in 1..Len(f) |-> 2 * SumTo(f, k - 1) + f[k]]

\* C20: when the field loop starts, mpasLayerCenters follows the
\* layer-centers construction from the destination's layer thickness
\* fractions; building the interfaces has changed no centre.
C20_LayerCentersKept ==
    (pc = "ready" /\ "mpasLayerCenters" \in defined) =>
        mpasLayerCenters = CentersOf(MPASfile.variables["layerThicknessFractions"])

\* C11: the nudge is symmetric and gated by the tolerance at both ends.
\* The first source coordinate is lowered by the tolerance exactly when the
\* source minimum exceeds the destination minimum by less than the
\* tolerance, the last one is raised by it exactly when the destination
\* maximum exceeds the source maximum by less than the tolerance, and a gap
\* of at least the tolerance at an end leaves that end unchanged and prints
\* a warning.
C11_NudgeGatedAtBothEnds ==
    pc = "done" =>
        LET n == Len(sourceLayers)
            gapMin == SeqMin(sourceLayers) - SeqMin(destVertCoord)
            gapMax == SeqMax(destVertCoord) - SeqMax(sourceLayers)
        IN  /\ input_layers[1] =
                  IF 0 < gapMin /\ gapMin < Tolerance
                  THEN sourceLayers[1] - Tolerance ELSE sourceLayers[1]
            /\ input_layers[n] =
                  IF 0 < gapMax /\ gapMax < Tolerance
                  THEN sourceLayers[n] + Tolerance ELSE sourceLayers[n]
            /\ gapMin >= Tolerance =>
                  InSeq(diagnostics,
                        "WARNING: input_layers.min() > destVertCoord.min()")
            /\ gapMax >= Tolerance =>
                  InSeq(diagnostics,
                        "WARNING: input_layers.max() < destVertCoord.max()")

---------------------------------------------------------------------------
(* The run of the script: weight setup (lines 539-614), the registry
   (lines 620-664), the field loop (lines 681-714) and the end of the run
   (lines 716-730).  Field values are fractions. *)

\* fieldInfo of a CISM source (lines 623-644), every entry in the order of
\* assignment.  A scale factor is the fraction <<n, d>>; the factor
\* 910/(3600*24*365)/1000 of sfcMassBal and sfcMassBalUncertainty, whose
\* denominator 3153600000 is beyond the integers of the checker, is kept
\* as <<n, d, m>> for n/(d*m).  273.15 is 5463/20.
CismFieldInfo ==
    << [name |-> "thickness", InputName |-> "thk",
        scalefactor |-> <<1, 1>>, offset |-> <<0, 1>>,
        gridType |-> "x1", vertDim |-> FALSE],
       [name |-> "bedTopography", InputName |-> "topg",
        scalefactor |-> <<1, 1>>, offset |-> <<0, 1>>,
        gridType |-> "x1", vertDim |-> FALSE],
       [name |-> "sfcMassBal", InputName |-> "smb",
        scalefactor |-> <<91, 3153600, 1000>>, offset |-> <<0, 1>>,
        gridType |-> "x1", vertDim |-> FALSE],
       [name |-> "sfcMassBalUncertainty", InputName |-> "smb_std",
        scalefactor |-> <<91, 3153600, 1000>>, offset |-> <<0, 1>>,
        gridType |-> "x1", vertDim |-> FALSE],
       [name |-> "floatingBasalMassBal", InputName |-> "subm",
        scalefactor |-> <<91, 3153600>>, offset |-> <<0, 1>>,
        gridType |-> "x1", vertDim |-> FALSE],
       [name |-> "temperature", InputName |-> "tempstag",
        scalefactor |-> <<1, 1>>, offset |-> <<5463, 20>>,
        gridType |-> "x1", vertDim |-> TRUE],
       [name |-> "basalHeatFlux", InputName |-> "bheatflx",
        scalefactor |-> <<1, 1>>, offset |-> <<0, 1>>,
        gridType |-> "x1", vertDim |-> FALSE],
       [name |-> "surfaceAirTemperature", InputName |-> "artm",
        scalefactor |-> <<1, 1>>, offset |-> <<5463, 20>>,
        gridType |-> "x1", vertDim |-> FALSE],
       [name |-> "beta", InputName |-> "beta",
        scalefactor |-> <<1, 1>>, offset |-> <<0, 1>>,
        gridType |-> "x0", vertDim |-> FALSE],
       [name |-> "observedSurfaceVelocityX", InputName |-> "vx",
        scalefactor |-> <<1, 31536000>>, offset |-> <<0, 1>>,
        gridType |-> "x1", vertDim |-> FALSE],
       [name |-> "observedSurfaceVelocityY", InputName |-> "vy",
        scalefactor |-> <<1, 31536000>>, offset |-> <<0, 1>>,
        gridType |-> "x1", vertDim |-> FALSE],
       [name |-> "observedSurfaceVelocityUncertainty", InputName |-> "vErr",
        scalefactor |-> <<1, 31536000>>, offset |-> <<0, 1>>,
        gridType |-> "x1", vertDim |-> FALSE],
       [name |-> "observedThicknessTendency", InputName |-> "dHdt",
        scalefactor |-> <<1, 31536000>>, offset |-> <<0, 1>>,
        gridType |-> "x1", vertDim |-> FALSE],
       [name |-> "observedThicknessTendencyUncertainty", InputName |-> "dHdtErr",
        scalefactor |-> <<1, 31536000>>, offset |-> <<0, 1>>,
        gridType |-> "x1", vertDim |-> FALSE],
       [name |-> "thicknessUncertainty", InputName |-> "topgerr",
        scalefactor |-> <<1, 1>>, offset |-> <<0, 1>>,
        gridType |-> "x1", vertDim |-> FALSE],
       [name |-> "ismip6shelfMelt_basin", InputName |-> "ismip6shelfMelt_basin",
        scalefactor |-> <<1, 1>>, offset |-> <<0, 1>>,
        gridType |-> "x1", vertDim |-> FALSE],
       [name |-> "ismip6shelfMelt_deltaT", InputName |-> "ismip6shelfMelt_deltaT",
        scalefactor |-> <<1, 1>>, offset |-> <<0, 1>>,
        gridType |-> "x1", vertDim |-> FALSE] >>

\* The keys of fieldInfo of an MPAS source (lines 648-664), in the order of
\* assignment.
MpasFieldNames ==
    << "thickness",
       "bedTopography",
       "sfcMassBal",
       "floatingBasalMassBal",
       "temperature",
       "basalHeatFlux",
       "surfaceAirTemperature",
       "beta",
       "observedSurfaceVelocityX",
       "observedSurfaceVelocityY",
       "observedSurfaceVelocityUncertainty",
       "observedThicknessTendency",
       "observedThicknessTendencyUncertainty",
       "thicknessUncertainty",
       "basalFrictionFlux" >>

\* fieldInfo of an MPAS source (lines 648-664): every entry reads the
\* variable of its own name on the cells, unscaled; temperature alone is
\* layered.
MpasFieldInfo ==
    [i \in 1..Len(MpasFieldNames) |->
        [name |-> MpasFieldNames[i], InputName |-> MpasFieldNames[i],
         scalefactor |-> <<1, 1>>, offset |-> <<0, 1>>, gridType |-> "cell",
         vertDim |-> MpasFieldNames[i] = "temperature"]]

\* list(fieldInfo) without --thickness-only: the keys of the registry of
\* this source layout, in order.
FieldNames ==
    IF filetype = "cism"
    THEN [i \in 1..Len(CismFieldInfo) |-> CismFieldInfo[i].name]
    ELSE MpasFieldNames

\* Lines 620-664: the registry; with --thickness-only it holds thickness
\* alone.
fieldInfo ==
    LET all == IF filetype = "cism" THEN CismFieldInfo ELSE MpasFieldInfo
    IN  IF args.thicknessOnly THEN SubSeq(all, 1, 1) ELSE all

\* Whether the source file has variable v.
SourceHas(v) == v \in DOMAIN inputFile.variables

\* The ways a run ends without completing: sys.exit and uncaught exceptions.
Failures == {"exit", "IndexError", "NameError", "TypeError"}

Ok(v) == [ok |-> TRUE, err |-> "none", value |-> v]

Fail(e) == [ok |-> FALSE, err |-> e, value |-> <<>>]

\* Lines 217-224, 273-283: the snapshot of source variable v at time level
\* t, or the whole variable when it has no time dimension.
ReadSource(v, t) ==
    LET var == inputFile.variables[v]
    IN  IF ~var.time THEN Ok(var.data[1])
        ELSE IF PyInRange(var.data, t) THEN Ok(PyAt(var.data, t))
        ELSE Fail("IndexError")

\* Lines 229-247 and 311-332: the horizontal interpolation of one 2-D (or
\* 1-D MPAS) field of topology gt by the method of the command line.
Horizontal(values, gt) ==
    IF args.interpType = "b"
    THEN IF gt \notin {"x0", "x1"} THEN Fail("exit")
         ELSE IF Len(BilinearAxisX(gt)) < 2 \/ Len(BilinearAxisY(gt)) < 2
              THEN Fail("IndexError")
         ELSE IF ~BilinearReadsOk(values, gt) THEN Fail("IndexError")
         ELSE Ok(BilinearInterp(values, gt))
    ELSE IF args.interpType = "d"
    THEN IF weights[gt] = NoTable THEN Fail("NameError")
         ELSE Ok(delaunay_interpolate(values, gt))
    ELSE IF args.interpType = "n"
    THEN IF nn_idx[gt] = <<>> THEN Fail("NameError")
         ELSE Ok([n \in 1..Len(nn_idx[gt]) |->
                     RatInt(Flatten(values, gt)[nn_idx[gt][n] + 1])])
    ELSE IF args.interpType = "e"
    THEN Ok([n \in 1..Len(xCell) |-> RatInt(ESMF_interp(values).dst[n])])
    ELSE Fail("exit")

\* The product of the value x and the scale factor sf (lines 252, 336).
Scaled(x, sf) ==
    IF Len(sf) = 3 THEN RatMul(RatMul(x, <<1, sf[3]>>), <<sf[1], sf[2]>>)
    ELSE RatMul(x, sf)

\* Lines 251-256 and 335-340: the scale factor, then the offset.
ScaleOffset(field, info) ==
    [n \in 1..Len(field) |->
        LET scaled == IF info.scalefactor # <<1, 1>>
                      THEN Scaled(field[n], info.scalefactor) ELSE field[n]
        IN  IF info.offset # <<0, 1>> THEN RatAdd(scaled, info.offset)
            ELSE scaled]

\* interpolate_field (lines 209-259) for registry entry i at time level t.
interpolate_field(i, t) ==
    LET info == fieldInfo[i]
        src == ReadSource(info.InputName, t)
        h == Horizontal(src.value, info.gridType)
    IN  IF ~src.ok THEN src
        ELSE IF ~h.ok THEN h
        ELSE Ok(ScaleOffset(h.value, info))

\* Layer z (from 1) of a layered snapshot: InputField[z,:,:] of a CISM
\* source, InputField[:,z] of an MPAS source (lines 313-330).
LayerOf(snapshot, z) ==
    IF filetype = "cism" THEN snapshot[z]
    ELSE [k \in 1..Len(snapshot) |-> snapshot[k][z]]

\* inputVerticalDimSize (lines 276, 284).
VerticalDimSize(snapshot) ==
    IF filetype = "cism" THEN Len(snapshot) ELSE Len(snapshot[1])

\* Lines 303-340: the layers of the snapshot interpolated horizontally, one
\* row per source layer, then scaled and offset; the first failure ends it.
HorizontalLayers(snapshot, info) ==
    LET nz == VerticalDimSize(snapshot)
        rows == [z \in 1..nz |-> Horizontal(LayerOf(snapshot, z), info.gridType)]
    IN  IF \E z \in 1..nz : ~rows[z].ok
        THEN rows[SetMin({ z \in 1..nz : ~rows[z].ok })]
        ELSE Ok([z \in 1..nz |-> ScaleOffset(rows[z].value, info)])

\* Lines 345-353: the destination coordinates of the destination variable
\* var.  The condition of line 345 calls var.dimensions, a tuple, so it
\* raises TypeError before any name is looked up in it: neither
\* mpasLayerCenters nor mpasLayerInterfaces is selected and the sys.exit of
\* line 353 is not reached, whatever var declares.
SelectDestVertCoord(var) == Fail("TypeError")

\* interpolate_field_with_layers (lines 265-379) for registry entry i at
\* time level t, for a source that holds the layer coordinates of the field
\* (lines 277-300).  Line 345 raises TypeError, so no call returns a field.
interpolate_field_with_layers(i, t) ==
    LET info == fieldInfo[i]
        src == ReadSource(info.InputName, t)
        layers == HorizontalLayers(src.value, info)
    IN  IF ~src.ok THEN src
        ELSE IF ~layers.ok THEN layers
        ELSE SelectDestVertCoord(MPASfile.variables[info.name])

\* The record of one call of ESMF_interp.
EsmfRecord(sourceField) ==
    [src |-> sourceField,
     dst |-> ESMF_interp(sourceField).dst,
     performed |-> ESMF_interp(sourceField).performed,
     raised |-> ESMF_interp(sourceField).raised]

\* The calls of ESMF_interp (lines 245, 330) in the pipeline of registry
\* entry i at time level t: one for a 2-D field, one per layer for a
\* layered field, none with another method or when the read fails.
EsmfCalls(i, t) ==
    LET info == fieldInfo[i]
        src == ReadSource(info.InputName, t)
    IN  IF args.interpType # "e" \/ ~src.ok THEN <<>>
        ELSE IF info.vertDim
             THEN [z \in 1..VerticalDimSize(src.value) |->
                      EsmfRecord(LayerOf(src.value, z))]
             ELSE <<EsmfRecord(src.value)>>

\* Lines 697-700: the field of registry entry i at time level t.
Pipeline(i, t) ==
    IF fieldInfo[i].vertDim THEN interpolate_field_with_layers(i, t)
    ELSE interpolate_field(i, t)

ClampAll(name, field) ==
    [n \in 1..Len(field) |-> IF field[n][1] < 0 THEN <<0, 1>> ELSE field[n]]

\* Lines 704-706: the negative values of thickness replaced by zero.
ClampThickness(name, field) ==
    IF name = "thickness" /\ \E n \in 1..Len(field) : field[n][1] < 0
    THEN [n \in 1..Len(field) |-> IF field[n][1] < 0 THEN <<0, 1>> ELSE field[n]]
    ELSE field

TimeLevOutFirst(t) == 0

\* Line 694: the destination time level of source time level t.
TimeLevOut(t) == t

\* Lines 709-712: the destination variable after the write of field at
\* time level t: that level of a variable with a Time dimension, the whole
\* variable otherwise.
WriteVariable(var, t, field) ==
    IF var.time THEN [var EXCEPT !.data = PySet(var.data, TimeLevOut(t), field)]
    ELSE [var EXCEPT !.data = <<field>>]

\* Where the run is after lines 697-700 returned r or failed with r.err.
Outcome(r) == IF r.ok THEN "computed" ELSE r.err

AfterSkipBreak(i) == Len(fieldInfo) + 1

\* Lines 686, 690: continue, on to the next field of the registry.
AfterSkip(i) == i + 1

TablesFallbackConsumed(w) ==
    [gt \in DOMAIN w |-> [w[gt] EXCEPT !.outsideInd = <<>>]]

\* The barycentric tables after a call of interpolate_field or
\* interpolate_field_with_layers: delaunay_interpolate (lines 176-205) reads
\* vtx, wts, outsideInd and tree and assigns to none of them.
TablesAfterInterpolation(w) == w

\* nn_interp_weights (lines 164-173): for every destination cell the index
\* of the nearest source point.
nn_interp_weights(xy, uv, order) ==
    [n \in 1..Len(uv) |-> TreeQuery([data |-> xy, order |-> order], uv[n])]

---------------------------------------------------------------------------
(* The inputs of a run. *)

\* The destination cells: two inside the primary grid and one outside
\* every source.
RunMesh == <<<<1, 2>>, <<3, 2>>, <<9, 1>>>>

\* The ESMF weight files: triples within the primary grid, and triples with
\* two on one row and a column equal to the number of primary grid points.
RunWeightFiles ==
    { [S |-> <<1, 2, 1>>, row |-> <<1, 2, 3>>, col |-> <<1, 3, 2>>],
      [S |-> <<1, 1, 2>>, row |-> <<1, 1, 3>>, col |-> <<2, 4, 1>>] }

\* The method tags of the command line; "q" is none of the script's.
MethodTags == {"b", "d", "n", "e", "q"}

\* The fields the source file holds, by registry name.
SourceFieldSets ==
    { {},
      {"thickness", "beta"},
      {"thickness", "sfcMassBal", "floatingBasalMassBal",
       "surfaceAirTemperature", "beta", "observedSurfaceVelocityX"},
      {"thickness", "bedTopography", "temperature", "surfaceAirTemperature"} }

\* The fields the destination file holds.
DestFieldSets ==
    { {"thickness", "bedTopography", "beta"},
      {"thickness", "sfcMassBal", "floatingBasalMassBal", "temperature",
       "beta", "observedSurfaceVelocityX"} }

\* The time level ranges <<timestart, timeend>> of the command line.
TimeRanges == { <<0, 0>>, <<0, 1>>, <<1, 1>>, <<1, 0>> }

\* The time levels of a source variable: 0 for one without a time
\* dimension.
SourceTimeLevels == {0, 1, 2}

\* The value of source point k (from 1) of the field at registry position a
\* at time level t.
SourceValue(k, a, t) == ((k * (a + 1) + 2 * t) % 5) - 2

\* A source snapshot of topology gt: rows of a structured grid, or a 1-D
\* MPAS field.
SourceSnapshot(gt, a, t) ==
    IF gt = "cell" THEN [k \in 1..Len(inputxCell) |-> SourceValue(k, a, t)]
    ELSE [j \in 1..Len(BilinearAxisY(gt)) |->
            [i \in 1..Len(BilinearAxisX(gt)) |->
                SourceValue((j - 1) * Len(BilinearAxisX(gt)) + i, a, t)]]

\* A layered source snapshot of two layers: layers of 2-D fields for a CISM
\* source, one column per cell for an MPAS source.
LayeredSnapshot(gt, a, t) ==
    IF gt = "cell"
    THEN [k \in 1..Len(inputxCell) |->
            [z \in 1..2 |-> SourceValue(k, a + z, t)]]
    ELSE [z \in 1..2 |-> SourceSnapshot(gt, a + z, t)]

\* The position of the field named nm in the registry.
FieldPosition(nm) == CHOOSE i \in 1..Len(FieldNames) : FieldNames[i] = nm

\* The registry entry of the field named nm for this source layout.
InfoOf(nm) ==
    IF filetype = "cism" THEN CismFieldInfo[FieldPosition(nm)]
    ELSE MpasFieldInfo[FieldPosition(nm)]

\* The unit of the source values of the field named nm: a field in mm/yr
\* (the scale factor has the divisor 1000) holds whole m/yr.
SourceUnit(nm) ==
    IF Len(InfoOf(nm).scalefactor) = 3 THEN InfoOf(nm).scalefactor[3] ELSE 1

\* The snapshot with every value multiplied by u.
InUnits(snapshot, u, gt) ==
    IF gt = "cell" THEN [k \in 1..Len(snapshot) |-> u * snapshot[k]]
    ELSE [j \in 1..Len(snapshot) |->
            [i \in 1..Len(snapshot[j]) |-> u * snapshot[j][i]]]

\* The source variable of the field named nm with levels time levels.
SourceVariable(nm, levels) ==
    [time |-> levels > 0,
     data |-> [t \in 1..(IF levels > 0 THEN levels ELSE 1) |->
                 IF InfoOf(nm).vertDim
                 THEN LayeredSnapshot(InfoOf(nm).gridType, FieldPosition(nm), t - 1)
                 ELSE InUnits(SourceSnapshot(InfoOf(nm).gridType,
                                             FieldPosition(nm), t - 1),
                              SourceUnit(nm), InfoOf(nm).gridType)]]

\* The values a destination variable holds before the run.
OldField == [n \in 1..Len(RunMesh) |-> <<-7, 1>>]

\* The vertical dimension a destination variable may declare; "none" is
\* neither nVertLevels nor nVertInterfaces.
DestVerticalDims == {"nVertLevels", "nVertInterfaces", "none"}

\* layerThicknessFractions of the destination: two layers of equal
\* thickness, so nVertLevels = 2 and nVertInterfaces = 3.
DestFractions == <<1, 1>>

\* The vertical dimensions a source file holding the fields present
\* declares: a CISM file with a layered field declares level and
\* stagwbndlevel, one with 2-D fields alone declares neither.
SourceDimensions(present) ==
    IF filetype = "cism" /\ \E nm \in present : InfoOf(nm).vertDim
    THEN {"level", "stagwbndlevel"}
    ELSE {}

\* Lines 405-436 for the destination of the run: nVertLevels = 2,
\* nVertInterfaces = 3 and layerThicknessFractions are there, the centres
\* are built, and the loop of lines 432-433 reads layerThicknessFractions[2],
\* which is out of range, so line 436 prints its message.
DestinationMessages ==
    (IF LayerCenters(DestFractions, Len(DestFractions)).raised
     THEN <<"Trouble calculating mpas layer centers.">> ELSE <<>>)
      \o (IF LayerInterfaces(LayerCenters(DestFractions, Len(DestFractions)).arr,
                             DestFractions, Len(DestFractions) + 1).raised
          THEN <<"Trouble calculating mpas layer interfaces.">> ELSE <<>>)

\* Lines 465-500: what the opening of a CISM source has printed: a message
\* for each of the dimensions level and stagwbndlevel the file lacks, and
\* the message of line 500 without x0 and y0.  An MPAS source prints none.
SourceMessages ==
    IF filetype # "cism" THEN <<>>
    ELSE (IF "level" \in inputFile.dimensions THEN <<>>
          ELSE <<"Input file is missing the dimension level.">>)
           \o (IF "stagwbndlevel" \in inputFile.dimensions THEN <<>>
               ELSE <<"Input file is missing the dimension stagwbndlevel.">>)
           \o SourceGridMessages

InitRun ==
    /\ pc = "start"
    /\ filetype \in {"cism", "mpas"}
    /\ IF filetype = "cism"
       THEN /\ x1 = <<0, 4>> /\ y1 = <<0, 4>>
            /\ x0 = <<2, 6>> /\ y0 = <<2, 6>>
            /\ inputxCell = <<>> /\ inputyCell = <<>>
       ELSE /\ x1 = <<>> /\ y1 = <<>>
            /\ x0 = <<>> /\ y0 = <<>>
            /\ inputxCell = <<0, 8, 0>> /\ inputyCell = <<0, 0, 8>>
    /\ xCell = [n \in 1..Len(RunMesh) |-> RunMesh[n][1]]
    /\ yCell = [n \in 1..Len(RunMesh) |-> RunMesh[n][2]]
    /\ gridType = "none"
    /\ InputField = <<>>
    /\ cellIndex = <<>>
    /\ MPASfield = <<>>
    /\ weights = NoWeights
    /\ nn_idx = NoNN
    /\ \E m \in MethodTags, range \in TimeRanges, only \in BOOLEAN, wf \in BOOLEAN :
          /\ wf => m = "e"
          /\ only => range = <<0, 0>>
          /\ args = [interpType |-> m, weightFile |-> wf, thicknessOnly |-> only,
                     timestart |-> range[1], timeend |-> range[2]]
    /\ weightsLoaded = (args.weightFile /\ args.interpType = "e")
    /\ IF weightsLoaded
       THEN \E w \in RunWeightFiles : S = w.S /\ row = w.row /\ col = w.col
       ELSE S = <<>> /\ row = <<>> /\ col = <<>>
    /\ esmfLog = <<>>
    /\ VerticalIdle
    /\ \E present \in SourceFieldSets, levels \in SourceTimeLevels :
          inputFile =
              [dimensions |-> SourceDimensions(present),
               variables |->
                  [v \in { InfoOf(nm).InputName : nm \in present } |->
                      SourceVariable(
                          CHOOSE nm \in present : InfoOf(nm).InputName = v,
                          levels)]]
    /\ \E present \in DestFieldSets, hasTime \in BOOLEAN,
          declared \in DestVerticalDims :
          /\ (\A v \in present : ~InfoOf(v).vertDim) => declared = "none"
          /\ MPASfile =
                [variables |->
                    [v \in present |->
                        [time |-> hasTime,
                         vertical |-> IF InfoOf(v).vertDim THEN declared
                                      ELSE "none",
                         data |-> IF hasTime THEN <<OldField, OldField>>
                                  ELSE <<OldField>>]],
                 history |-> <<>>]
    /\ MPASfieldName = 0
    /\ timelev = 0
    /\ writes = <<>>
    /\ mpasLayerCenters =
          LayerInterfaces(LayerCenters(DestFractions, Len(DestFractions)).arr,
                          DestFractions, Len(DestFractions) + 1).arr
    /\ mpasLayerInterfaces = Filled(Len(DestFractions) + 1, 0)
    /\ defined = {"nVertLevels", "nVertInterfaces", "mpasLayerCenters",
                  "mpasLayerInterfaces"}
    /\ diagnostics = DestinationMessages \o SourceMessages

\* What the steps of the run leave alone.
RunFrame ==
    /\ UNCHANGED <<x0, y0, x1, y1, xCell, yCell, cellIndex, filetype,
                   inputxCell, inputyCell, args, inputFile>>
    /\ UNCHANGED <<S, row, col, weightsLoaded>>
    /\ UNCHANGED <<sourceLayers, input_layers, destVertCoord>>
    /\ UNCHANGED <<mpasLayerCenters, mpasLayerInterfaces, defined>>

\* Lines 539-540: an MPAS source with a method other than 'd' ends the run.
RejectMpasMethod ==
    /\ pc = "start"
    /\ filetype = "mpas" /\ args.interpType # "d"
    /\ pc' = "exit"
    /\ diagnostics' = Append(diagnostics,
          "ERROR: Input files with MPAS format are only supported with the barycentric interpolation method ('d')")
    /\ UNCHANGED <<gridType, InputField, MPASfield, weights, nn_idx, MPASfile,
                   MPASfieldName, timelev, writes, mpas_grid_input_layers>>
    /\ UNCHANGED esmfLog
    /\ RunFrame

\* Lines 544-614: the barycentric tables (method 'd') or the
\* nearest-neighbour index arrays (method 'n') of every topology of the
\* source; the staggered grid's only without --thickness-only.  Then the
\* field loop starts at the first entry of the registry (line 681).
SetupWeights ==
    /\ pc = "start"
    /\ ~(filetype = "mpas" /\ args.interpType # "d")
    /\ \E order \in {"low", "high"} :
          /\ IF args.interpType = "d"
             THEN IF filetype = "cism"
                  THEN \E w1 \in DelaunayTables(CismXY(x1, y1), mpasXY, order) :
                          IF x0 # <<>> /\ ~args.thicknessOnly
                          THEN \E w0 \in DelaunayTables(CismXY(x0, y0), mpasXY, order) :
                                  weights' = [weights EXCEPT !.x1 = w1, !.x0 = w0]
                          ELSE weights' = [weights EXCEPT !.x1 = w1]
                  ELSE \E wc \in DelaunayTables(InputMpasXY, mpasXY, order) :
                          weights' = [weights EXCEPT !.cell = wc]
             ELSE weights' = weights
          /\ IF args.interpType = "n"
             THEN IF filetype = "cism"
                  THEN nn_idx' =
                          [nn_idx EXCEPT
                              !.x1 = nn_interp_weights(CismXY(x1, y1), mpasXY, order),
                              !.x0 = IF x0 # <<>> /\ ~args.thicknessOnly
                                     THEN nn_interp_weights(CismXY(x0, y0), mpasXY, order)
                                     ELSE <<>>]
                  ELSE nn_idx' =
                          [nn_idx EXCEPT
                              !.cell = nn_interp_weights(InputMpasXY, mpasXY, order)]
             ELSE nn_idx' = nn_idx
          /\ args.interpType \notin {"d", "n"} => order = "low"
    /\ pc' = "field"
    /\ MPASfieldName' = 1
    /\ UNCHANGED <<gridType, InputField, MPASfield, MPASfile, timelev, writes,
                   diagnostics, mpas_grid_input_layers>>
    /\ UNCHANGED esmfLog
    /\ RunFrame

\* Whether registry entry i is in both files (lines 684, 688).
InDestination(i) == HasVar(fieldInfo[i].name)

InSource(i) == SourceHas(fieldInfo[i].InputName)

\* Lines 684-690: a field that the destination or the source lacks is
\* skipped with a warning.
SkipField ==
    /\ pc = "field"
    /\ MPASfieldName <= Len(fieldInfo)
    /\ ~InDestination(MPASfieldName) \/ ~InSource(MPASfieldName)
    /\ diagnostics' =
          Append(diagnostics,
                 IF ~InDestination(MPASfieldName)
                 THEN "Warning: Field is not in the destination file.  Skipping."
                 ELSE "Warning: Field is not in the source file.  Skipping.")
    /\ MPASfieldName' = AfterSkip(MPASfieldName)
    /\ pc' = "field"
    /\ UNCHANGED <<gridType, InputField, MPASfield, weights, nn_idx, MPASfile,
                   timelev, writes, mpas_grid_input_layers>>
    /\ UNCHANGED esmfLog
    /\ RunFrame

\* Line 692: the time level loop of a field in both files starts.
EnterField ==
    /\ pc = "field"
    /\ MPASfieldName <= Len(fieldInfo)
    /\ InDestination(MPASfieldName) /\ InSource(MPASfieldName)
    /\ timelev' = args.timestart
    /\ pc' = "time"
    /\ UNCHANGED <<gridType, InputField, MPASfield, weights, nn_idx, MPASfile,
                   MPASfieldName, writes, diagnostics, mpas_grid_input_layers>>
    /\ UNCHANGED esmfLog
    /\ RunFrame

\* Lines 694-701: the field at time level timelev is computed, or the run
\* ends with the error raised on the way.
InterpolateTimeLevel ==
    /\ pc = "time"
    /\ timelev <= args.timeend
    /\ LET info == fieldInfo[MPASfieldName]
           src == ReadSource(info.InputName, timelev)
           r == Pipeline(MPASfieldName, timelev)
       IN  /\ gridType' = info.gridType
           /\ InputField' = IF src.ok THEN src.value ELSE InputField
           /\ MPASfield' = IF r.ok THEN r.value ELSE MPASfield
           /\ mpas_grid_input_layers' =
                 IF info.vertDim /\ src.ok /\ HorizontalLayers(src.value, info).ok
                 THEN HorizontalLayers(src.value, info).value
                 ELSE mpas_grid_input_layers
           /\ pc' = Outcome(r)
           /\ diagnostics' =
                 IF r.ok THEN diagnostics
                 ELSE IF r.err = "exit"
                      THEN Append(diagnostics,
                                  "ERROR: Unknown interpolation method specified")
                      ELSE Append(diagnostics, r.err)
    /\ esmfLog' = esmfLog \o EsmfCalls(MPASfieldName, timelev)
    /\ weights' = TablesAfterInterpolation(weights)
    /\ UNCHANGED <<nn_idx, MPASfile, MPASfieldName, timelev, writes>>
    /\ RunFrame

\* Lines 703-714: thickness is clamped, the field is written to the
\* destination variable and the file is synced; then the next time level.
WriteTimeLevel ==
    /\ pc = "computed"
    /\ LET name == fieldInfo[MPASfieldName].name
           field == ClampThickness(name, MPASfield)
       IN  /\ MPASfield' = field
           /\ MPASfile' =
                 [MPASfile EXCEPT
                     !.variables[name] = WriteVariable(@, timelev, field)]
           /\ writes' = Append(writes,
                               [name |-> name, timelev |-> timelev,
                                computed |-> MPASfield, value |-> field])
    /\ timelev' = timelev + 1
    /\ pc' = "time"
    /\ UNCHANGED <<gridType, InputField, weights, nn_idx, MPASfieldName,
                   diagnostics, mpas_grid_input_layers>>
    /\ UNCHANGED esmfLog
    /\ RunFrame

\* Line 692: the time levels of the field are exhausted; on to the next
\* field.
EndField ==
    /\ pc = "time"
    /\ timelev > args.timeend
    /\ MPASfieldName' = MPASfieldName + 1
    /\ pc' = "field"
    /\ UNCHANGED <<gridType, InputField, MPASfield, weights, nn_idx, MPASfile,
                   timelev, writes, diagnostics, mpas_grid_input_layers>>
    /\ UNCHANGED esmfLog
    /\ RunFrame

\* Lines 716-730: the registry is exhausted; the history attribute of the
\* destination gets the command line, the files are closed and
\* 'Interpolation completed.' is printed.
FinishRun ==
    /\ pc = "field"
    /\ MPASfieldName > Len(fieldInfo)
    /\ MPASfile' = [MPASfile EXCEPT !.history = <<"thiscommand">> \o @]
    /\ pc' = "done"
    /\ UNCHANGED <<gridType, InputField, MPASfield, weights, nn_idx,
                   MPASfieldName, timelev, writes, diagnostics,
                   mpas_grid_input_layers>>
    /\ UNCHANGED esmfLog
    /\ RunFrame

NextRun ==
    \/ RejectMpasMethod
    \/ SetupWeights
    \/ SkipField
    \/ EnterField
    \/ InterpolateTimeLevel
    \/ WriteTimeLevel
    \/ EndField
    \/ FinishRun

SpecRun == InitRun /\ [][NextRun]_vars

---------------------------------------------------------------------------
(* Claims about the run. *)

\* The field has a negative value.
HasNegative(field) == \E n \in 1..Len(field) : field[n][1] < 0

\* C12: every value written to the destination for thickness is
\* non-negative: each negative computed value is written as 0 and every
\* other value unchanged (computed [-0.5, 0.0, 3.2] is written as
\* [0.0, 0.0, 3.2]); the fields other than thickness are written as
\* computed.
C12_ThicknessClamped ==
    /\ \A k \in 1..Len(writes) :
          LET w == writes[k]
          IN  IF w.name = "thickness"
              THEN \A n \in 1..Len(w.value) :
                      /\ w.value[n][1] >= 0
                      /\ w.value[n] = IF w.computed[n][1] < 0 THEN <<0, 1>>
                                      ELSE w.computed[n]
              ELSE w.value = w.computed
    /\ HasVar("thickness") =>
          \A t \in 1..Len(MPASfile.variables["thickness"].data) :
              LET level == MPASfile.variables["thickness"].data[t]
              IN  level = OldField \/ ~HasNegative(level)
    /\ ClampThickness("thickness", <<<<-1, 2>>, <<0, 1>>, <<16, 5>>>>)
          = <<<<0, 1>>, <<0, 1>>, <<16, 5>>>>
    /\ ClampThickness("bedTopography", <<<<-1, 2>>, <<0, 1>>, <<16, 5>>>>)
          = <<<<-1, 2>>, <<0, 1>>, <<16, 5>>>>

\* A thickness computed with a negative and a positive value has been
\* written clamped, and another field with a negative value as computed.
C12_Witness ==
    /\ \E k \in 1..Len(writes) :
          /\ writes[k].name = "thickness"
          /\ HasNegative(writes[k].computed)
          /\ \E n \in 1..Len(writes[k].value) : writes[k].value[n][1] > 0
          /\ MPASfile.variables["thickness"].time
          /\ MPASfile.variables["thickness"].data[writes[k].timelev + 1]
                = writes[k].value
    /\ \E k \in 1..Len(writes) :
          /\ writes[k].name # "thickness"
          /\ HasNegative(writes[k].value)

\* C13: with a method tag other than 'b', 'd', 'n' and 'e' the run aborts
\* with an error: it never reaches its normal completion and writes no
\* field value to the destination, whatever the files hold.
C13_UnknownMethodAborts ==
    args.interpType \notin {"b", "d", "n", "e"} =>
        /\ pc # "done"
        /\ writes = <<>>

\* C14: with method 'e' a field of the staggered grid (gridType 'x0') is
\* not interpolated with the primary grid's weights: the call fails for
\* that field and no value is written for it.
C14_StaggeredRejected ==
    args.interpType = "e" =>
        /\ \A k \in 1..Len(writes) : InfoOf(writes[k].name).gridType # "x0"
        /\ ~(pc = "computed" /\ fieldInfo[MPASfieldName].gridType = "x0")

\* Registry entry i is missing from the destination or from the source.
Missing(i) == ~InDestination(i) \/ ~InSource(i)

\* The step of the field loop at a missing field: nothing is read,
\* interpolated or written, one diagnostic is printed and the loop is at
\* the next field of the registry.
SkipStep ==
    (pc = "field" /\ MPASfieldName <= Len(fieldInfo) /\ Missing(MPASfieldName)) =>
        /\ MPASfile' = MPASfile
        /\ writes' = writes
        /\ InputField' = InputField
        /\ MPASfield' = MPASfield
        /\ Len(diagnostics') = Len(diagnostics) + 1
        /\ pc' = "field"
        /\ MPASfieldName' = MPASfieldName + 1

\* The fields written so far are in registry order, and a completed run
\* with a non-empty time range has written every field that is in both
\* files and none that is missing from one.
ProcessedInOrder ==
    /\ \A j \in 1..Len(writes), k \in 1..Len(writes) :
          j <= k => FieldPosition(writes[j].name) <= FieldPosition(writes[k].name)
    /\ \A k \in 1..Len(writes) :
          \E i \in 1..Len(fieldInfo) :
              fieldInfo[i].name = writes[k].name /\ ~Missing(i)
    /\ (pc = "done" /\ args.timestart <= args.timeend) =>
          \A i \in 1..Len(fieldInfo) :
              ~Missing(i) => \E k \in 1..Len(writes) :
                                 writes[k].name = fieldInfo[i].name

\* C15: a registry field missing from the destination or from the source is
\* skipped with a diagnostic: nothing is read, interpolated or written for
\* it, the destination is unchanged, and the later fields of the registry
\* are still processed, in registry order.
C15_SkipRecoverable == [][SkipStep]_vars /\ []ProcessedInOrder

\* A run has completed in which a field missing from the destination and a
\* field missing from the source were skipped and a later field of the
\* registry was written.
C15_Witness ==
    /\ pc = "done"
    /\ \E k \in 1..Len(writes) :
          /\ \E i \in 1..(FieldPosition(writes[k].name) - 1) : ~InDestination(i)
          /\ \E i \in 1..(FieldPosition(writes[k].name) - 1) :
                InDestination(i) /\ ~InSource(i)
    /\ InSeq(diagnostics, "Warning: Field is not in the destination file.  Skipping.")
    /\ InSeq(diagnostics, "Warning: Field is not in the source file.  Skipping.")

\* An error was raised in the pipeline of registry entry i at time level
\* t: one that ended the run, or one that ESMF_interp caught.
PipelineRaised(i, t) ==
    \/ ~Pipeline(i, t).ok
    \/ \E k \in 1..Len(EsmfCalls(i, t)) : EsmfCalls(i, t)[k].raised

\* Every write so far is of a completely computed field: no error was
\* raised in the pipeline of its field and time level, and the value
\* written is the pipeline's result, one value per destination cell, after
\* the clamp.
WritesComplete ==
    \A k \in 1..Len(writes) :
        LET w == writes[k]
            r == Pipeline(FieldPosition(w.name), w.timelev)
        IN  /\ ~PipelineRaised(FieldPosition(w.name), w.timelev)
            /\ w.computed = r.value
            /\ Len(w.value) = Len(xCell)
            /\ w.value = ClampThickness(w.name, r.value)

\* A run that failed in the pipeline of a field has written nothing for
\* that field at that time level.
NoWriteOnFailure ==
    (pc \in Failures /\ MPASfieldName >= 1) =>
        ~\E k \in 1..Len(writes) :
            /\ writes[k].name = fieldInfo[MPASfieldName].name
            /\ writes[k].timelev = timelev

\* The destination's variables change only in the write that follows a
\* computed field, and only the variable of that field changes.
WriteStep ==
    MPASfile'.variables # MPASfile.variables =>
        /\ pc = "computed"
        /\ Pipeline(MPASfieldName, timelev).ok
        /\ \A v \in DOMAIN MPASfile.variables :
              v # fieldInfo[MPASfieldName].name =>
                  MPASfile'.variables[v] = MPASfile.variables[v]

\* C17: for every field and time level the destination variable is written
\* only after the complete value array of that time level has been
\* computed; a pipeline in which an error occurs at any point of a time
\* level has written no value of that field for that time level.
C17_WriteAfterComplete ==
    [][WriteStep]_vars /\ [](WritesComplete /\ NoWriteOnFailure)

\* The time levels of the command line.
RequestedLevels == args.timestart..args.timeend

\* The writes so far of field nm at time level t.
WritesOf(nm, t) ==
    { k \in 1..Len(writes) : writes[k].name = nm /\ writes[k].timelev = t }

\* Destination variable nm, which has a Time dimension, holds at every
\* level written so far the interpolation of the source at that level, each
\* level written once, and at every other level what it held before.
LevelsByIndex(nm) ==
    LET var == MPASfile.variables[nm]
    IN  \A t \in 0..(Len(var.data) - 1) :
            IF WritesOf(nm, t) = {}
            THEN var.data[t + 1] = OldField
            ELSE /\ Cardinality(WritesOf(nm, t)) = 1
                 /\ t \in RequestedLevels
                 /\ Pipeline(FieldPosition(nm), t).ok
                 /\ var.data[t + 1] =
                       ClampThickness(nm, Pipeline(FieldPosition(nm), t).value)

\* A completed run has written every requested level of every field in
\* both files.
AllLevelsWritten ==
    pc = "done" =>
        \A i \in 1..Len(fieldInfo) : \A t \in RequestedLevels :
            ~Missing(i) => WritesOf(fieldInfo[i].name, t) # {}

\* A write to a variable with a Time dimension changes the level of the
\* current time level only.
OneLevelStep ==
    \A v \in DOMAIN MPASfile.variables :
        MPASfile.variables[v].time =>
            \A t \in 1..Len(MPASfile.variables[v].data) :
                MPASfile'.variables[v].data[t] # MPASfile.variables[v].data[t] =>
                    t = timelev + 1

\* C18: time levels are copied by index.  A destination variable with a
\* Time dimension holds at level t the interpolation of source level t (of
\* the static field for a source without time dimension) for every t of
\* [timestart, timeend], each level written once and never altered by a
\* later write; the levels outside the range are unchanged; with
\* timeend < timestart nothing is written.
C18_LevelsCopiedByIndex ==
    /\ [][OneLevelStep]_vars
    /\ [](\A v \in DOMAIN MPASfile.variables :
              MPASfile.variables[v].time => LevelsByIndex(v))
    /\ []AllLevelsWritten
    /\ [](args.timeend < args.timestart => writes = <<>>)

\* A completed run over time levels 0 and 1 in which a field's two levels
\* hold different values, and a completed run of level 1 alone in which
\* level 0 holds what it held before.
C18_Witness ==
    /\ pc = "done"
    /\ \E v \in DOMAIN MPASfile.variables :
          /\ MPASfile.variables[v].time
          /\ \/ /\ args.timestart = 0 /\ args.timeend = 1
                /\ WritesOf(v, 0) # {} /\ WritesOf(v, 1) # {}
                /\ MPASfile.variables[v].data[1] # MPASfile.variables[v].data[2]
                /\ MPASfile.variables[v].data[1] # OldField
             \/ /\ args.timestart = 1 /\ args.timeend = 1
                /\ WritesOf(v, 1) # {}
                /\ MPASfile.variables[v].data[1] = OldField
                /\ MPASfile.variables[v].data[2] # OldField

\* After the setup no step changes a barycentric table or a
\* nearest-neighbour index array.
TablesReadOnlyStep ==
    pc # "start" => (weights' = weights /\ nn_idx' = nn_idx)

\* The source snapshot of write k.
SnapshotOf(k) == ReadSource(InfoOf(writes[k].name).InputName, writes[k].timelev).value

\* Two writes whose source snapshots, topology, scale factor and offset
\* are the same were computed to the same field.
SameFieldSameResult ==
    \A j \in 1..Len(writes), k \in 1..Len(writes) :
        (/\ SnapshotOf(j) = SnapshotOf(k)
         /\ InfoOf(writes[j].name).gridType = InfoOf(writes[k].name).gridType
         /\ InfoOf(writes[j].name).scalefactor = InfoOf(writes[k].name).scalefactor
         /\ InfoOf(writes[j].name).offset = InfoOf(writes[k].name).offset)
            => writes[j].computed = writes[k].computed

\* The value written for cell n (from 1) by write k.
WrittenAt(k, n) == writes[k].computed[n]

\* The value of source point id (from 0) of the snapshot of write k, scaled
\* and offset as the registry entry of the field says.
SourceAt(k, id) ==
    LET info == InfoOf(writes[k].name)
    IN  ScaleOffset(<<RatInt(Flatten(SnapshotOf(k), info.gridType)[id + 1])>>, info)[1]

\* The values of the three vertices of triangle t of the snapshot of write
\* k weighted by the barycentric coordinates of p in t, scaled and offset.
TriangleAt(k, t, xy, p) ==
    LET info == InfoOf(writes[k].name)
        flat == Flatten(SnapshotOf(k), info.gridType)
        w == BaryWeights(t, xy, p)
    IN  ScaleOffset(
            <<RatAdd(RatMul(RatInt(flat[t[1] + 1]), w[1]),
                     RatAdd(RatMul(RatInt(flat[t[2] + 1]), w[2]),
                            RatMul(RatInt(flat[t[3] + 1]), w[3])))>>,
            info)[1]

\* The writes of fields of topology gt.
WritesOn(gt) == { k \in 1..Len(writes) : InfoOf(writes[k].name).gridType = gt }

\* When the run has ended, normally or with an error, every value it wrote
\* for a cell comes from one and the same entry of the tables, whatever
\* the field and the time level: with the
\* barycentric method one triangle that holds the cell, or one nearest
\* source point when the cell is outside the source grid; with the
\* nearest-neighbour method one nearest source point.  The first write of
\* the run and the last were computed from the same tables.
OneTableExplainsWrites ==
    \A gt \in {"x0", "x1", "cell"} : \A n \in 1..Len(mpasXY) :
        (pc \in Failures \cup {"done"} /\ WritesOn(gt) # {}) =>
            LET xy == SourceXY(gt)
                p == mpasXY[n]
                holding == { t \in DelaunayTriangles(xy) : InTriangle(t, xy, p) }
            IN  /\ (args.interpType = "d" /\ holding # {}) =>
                      \E t \in holding :
                          \A k \in WritesOn(gt) : WrittenAt(k, n) = TriangleAt(k, t, xy, p)
                /\ (args.interpType = "n" \/ (args.interpType = "d" /\ holding = {})) =>
                      \E id \in NearestIds(xy, p) :
                          \A k \in WritesOn(gt) : WrittenAt(k, n) = SourceAt(k, id)

\* C19: the weight tables are built once per topology and read-only
\* afterwards: once the setup has finished no call of interpolate_field,
\* interpolate_field_with_layers or delaunay_interpolate modifies the
\* triangle vertex indices, barycentric weights, extrapolation index sets
\* or nearest-neighbour index arrays, so the same source field interpolated
\* at two points of the run gives the same result.
C19_TablesReadOnly ==
    /\ [][TablesReadOnlyStep]_vars
    /\ []SameFieldSameResult
    /\ []OneTableExplainsWrites

\* A completed barycentric run wrote the same static source field at two
\* time levels, with a destination cell in the extrapolation set, after
\* the tables of the primary and the staggered grid were built.
C19_Witness ==
    /\ pc = "done"
    /\ args.interpType = "d"
    /\ weights.x1 # NoTable /\ weights.x0 # NoTable
    /\ Len(weights.x1.outsideInd) > 0
    /\ \E j \in 1..Len(writes), k \in 1..Len(writes) :
          /\ j < k
          /\ writes[j].name = writes[k].name
          /\ SnapshotOf(j) = SnapshotOf(k)
          /\ writes[j].computed = writes[k].computed

\* The pipeline of a layered field in both files has run at the time level
\* of the loop, and every source layer was read and interpolated
\* horizontally (lines 265-340 completed).
LayersInterpolated ==
    /\ pc \in Failures \cup {"computed"}
    /\ MPASfieldName \in 1..Len(fieldInfo)
    /\ fieldInfo[MPASfieldName].vertDim
    /\ InDestination(MPASfieldName) /\ InSource(MPASfieldName)
    /\ ReadSource(fieldInfo[MPASfieldName].InputName, timelev).ok
    /\ HorizontalLayers(
           ReadSource(fieldInfo[MPASfieldName].InputName, timelev).value,
           fieldInfo[MPASfieldName]).ok

\* The destination coordinates the declared vertical dimension selects.
CoordinatesDeclared(var) ==
    IF var.vertical = "nVertLevels" THEN mpasLayerCenters
    ELSE mpasLayerInterfaces

\* C21: for a layered field present in both files,
\* interpolate_field_with_layers selects the destination coordinates by the
\* vertical dimension the destination variable declares (the layer centers
\* for nVertLevels, the layer interfaces for nVertInterfaces, the fatal
\* error 'unknown vertical dimension' otherwise) and then returns an array
\* with one re-layered value per destination cell and per destination
\* coordinate, which the field loop goes on to write.
C21_LayeredFieldReturned ==
    LayersInterpolated =>
        LET var == MPASfile.variables[fieldInfo[MPASfieldName].name]
        IN  IF var.vertical \in {"nVertLevels", "nVertInterfaces"}
            THEN /\ pc = "computed"
                 /\ Len(MPASfield) = Len(xCell)
                 /\ \A n \in 1..Len(MPASfield) :
                       Len(MPASfield[n]) = Len(CoordinatesDeclared(var))
            ELSE pc = "exit"

\* What the code does instead: whatever the destination variable declares,
\* the call ends with the TypeError of line 345 and the field is never
\* written.
LayeredFieldRaises ==
    /\ LayersInterpolated => pc = "TypeError"
    /\ \A k \in 1..Len(writes) : ~InfoOf(writes[k].name).vertDim

\* The layers of temperature were interpolated for a destination variable
\* on nVertLevels, after thickness was written.
LayeredFieldReached ==
    /\ LayersInterpolated
    /\ MPASfile.variables[fieldInfo[MPASfieldName].name].vertical = "nVertLevels"
    /\ Len(writes) > 0

===========================================================================
